---- MODULE Spec2Model ----
(***************************************************************************)
(* Quiz reporting backend (krishna-maruti-backend/app.js, v2.0.0 section): *)
(* from the rows of the sheet the question set and answer key are derived  *)
(* (rows 0 and 1), every data row is graded into a result record and the   *)
(* records are folded into the dashboard summary.                          *)
(*                                                                         *)
(* Strings are sequences of one-character strings, so trim, toLowerCase    *)
(* and the header prefix regex are computed character by character.        *)
(* Times are milliseconds as returned by Date.now().                       *)
(***************************************************************************)
EXTENDS Integers, Sequences, FiniteSets, TLC

VARIABLES
  sheet,            \* the rows fetchDataFromCSV resolves to
  QUESTIONS,        \* app.js:58
  CORRECT_ANSWERS,  \* app.js:57
  res,              \* the last response sent, or the last value returned
  firstRun,         \* what an earlier processing of a table gave, kept to compare
  csvData,          \* the text given to parseCSV
  CACHED_DATA,      \* app.js:61
  CACHE_TIMESTAMP,  \* app.js:62
  now,              \* Date.now()
  req,              \* the request being served and where its fetch stands
  cleared,          \* clear-cache has answered and fetchDataFromCSV was not called since
  login,            \* fields of the Login component
  route,            \* the path the router shows
  timers,           \* pending setTimeout callbacks of onLogin
  dashboard         \* fields of the Dashboard component

tableVars == <<firstRun>>

parseVars == <<csvData>>

fetchVars == <<CACHED_DATA, CACHE_TIMESTAMP, now, req, cleared>>

loginVars == <<login, route, timers, dashboard>>

vars == <<sheet, QUESTIONS, CORRECT_ANSWERS, res, tableVars, parseVars, fetchVars, loginVars>>

----------------------------------------------------------------------------
(* Bounds of the model *)

MaxRows == 2          \* data rows of a sheet with free cells
MaxGraded == 3        \* rows after the key row of a ten-question sheet
MaxTime == 1          \* clock values a request can be answered at
MaxFree == 4          \* characters of the free part of a CSV line
MaxLines == 3         \* lines of a CSV text
MaxTimers == 2        \* setTimeout callbacks of onLogin pending at a time
MaxTicks == 2         \* half cache durations the clock advances

----------------------------------------------------------------------------
(* JavaScript values *)

NULL == [null |-> TRUE]

Min(a, b) == IF a < b THEN a ELSE b

\* Array.prototype.slice(from, to) with 0-based, end-exclusive indices
Slice(s, from, to) == SubSeq(s, from + 1, Min(to, Len(s)))

\* row[i] with 0-based i; undefined?.trim() || '' and undefined || '' give ''
Cell(row, i) == IF i + 1 <= Len(row) THEN row[i + 1] ELSE <<>>

WhiteSpace == {" ", "\t", "\n", "\r"}

Digits == {"0", "1", "2", "3", "4", "5", "6", "7", "8", "9"}

UpperCase == <<"A","B","C","D","E","F","G","H","I","J","K","L","M",
               "N","O","P","Q","R","S","T","U","V","W","X","Y","Z">>

LowerCase == <<"a","b","c","d","e","f","g","h","i","j","k","l","m",
               "n","o","p","q","r","s","t","u","v","w","x","y","z">>

RECURSIVE TrimStart(_)
TrimStart(s) ==
  IF s # <<>> /\ Head(s) \in WhiteSpace THEN TrimStart(Tail(s)) ELSE s

RECURSIVE TrimEnd(_)
TrimEnd(s) ==
  IF s # <<>> /\ s[Len(s)] \in WhiteSpace
    THEN TrimEnd(SubSeq(s, 1, Len(s) - 1))
    ELSE s

\* String.prototype.trim
Trim(s) == TrimEnd(TrimStart(s))

LowerOf ==
  [c \in {UpperCase[i] : i \in 1..Len(UpperCase)} |->
     LowerCase[CHOOSE i \in 1..Len(UpperCase) : UpperCase[i] = c]]

ToLowerChar(c) == IF c \in DOMAIN LowerOf THEN LowerOf[c] ELSE c

\* String.prototype.toLowerCase
ToLowerCase(s) == [i \in 1..Len(s) |-> ToLowerChar(s[i])]

RECURSIVE DigitRun(_)
DigitRun(s) ==
  IF s # <<>> /\ Head(s) \in Digits THEN 1 + DigitRun(Tail(s)) ELSE 0

\* faulty variant of StripNumberPrefix: every number prefix is removed, as
\* a repeated or global replace would
RECURSIVE StripEveryNumberPrefix(_)
StripEveryNumberPrefix(q) ==
  LET k == DigitRun(q) IN
    IF k >= 1 /\ k < Len(q) /\ q[k + 1] = "."
      THEN StripEveryNumberPrefix(TrimStart(SubSeq(q, k + 2, Len(q))))
      ELSE q

\* q.replace(/^\d+\.\s*/, '')
StripNumberPrefix(q) ==
  LET k == DigitRun(q) IN
    IF k >= 1 /\ k < Len(q) /\ q[k + 1] = "."
      THEN TrimStart(SubSeq(q, k + 2, Len(q)))
      ELSE q

----------------------------------------------------------------------------
(* Scoring initializer *)

questionStartCol == 6

QuestionLimit == 10

PassThreshold == 6

maxQuestions(headerRow) == Min(QuestionLimit, Len(headerRow) - questionStartCol)

QuestionsOf(rows) ==
  LET qs == Slice(rows[1], questionStartCol, questionStartCol + maxQuestions(rows[1]))
  IN [i \in 1..Len(qs) |-> Trim(StripNumberPrefix(qs[i]))]

CorrectAnswersOf(rows) ==
  LET as == Slice(rows[2], questionStartCol, questionStartCol + maxQuestions(rows[1]))
  IN [i \in 1..Len(as) |-> Trim(as[i])]

\* faulty variant of initializeCorrectAnswers: the returned boolean looks at
\* the questions only
initializeCorrectAnswersByQuestions(rows, q, ca) ==
  IF Len(rows) < 2
    THEN [QUESTIONS |-> q, CORRECT_ANSWERS |-> ca, ok |-> FALSE]
    ELSE [QUESTIONS |-> QuestionsOf(rows),
          CORRECT_ANSWERS |-> CorrectAnswersOf(rows),
          ok |-> Len(QuestionsOf(rows)) > 0]

\* initializeCorrectAnswers: the new QUESTIONS, CORRECT_ANSWERS and the
\* returned boolean, from the current globals q, ca
initializeCorrectAnswers(rows, q, ca) ==
  IF Len(rows) < 2
    THEN [QUESTIONS |-> q, CORRECT_ANSWERS |-> ca, ok |-> FALSE]
    ELSE [QUESTIONS |-> QuestionsOf(rows),
          CORRECT_ANSWERS |-> CorrectAnswersOf(rows),
          ok |-> Len(QuestionsOf(rows)) > 0 /\ Len(CorrectAnswersOf(rows)) > 0]

----------------------------------------------------------------------------
(* Response mapper *)

isAnswerCorrect(ca, userAnswer, questionIndex) ==
  IF questionIndex >= Len(ca) \/ userAnswer = <<>>
    THEN FALSE
    ELSE Trim(ToLowerCase(userAnswer)) = Trim(ToLowerCase(ca[questionIndex + 1]))

\* Timestamps new Date(timestamp) can parse; any other yields Invalid Date
IsParseableDate(timestamp) == timestamp # <<>> /\ Head(timestamp) \in Digits

SubmissionDate(timestamp, t) ==
  IF IsParseableDate(timestamp) THEN [parsed |-> timestamp] ELSE [at |-> t]

RECURSIVE CountCorrect(_)
CountCorrect(answers) ==
  IF answers = <<>> THEN 0
  ELSE (IF Head(answers).isCorrect THEN 1 ELSE 0) + CountCorrect(Tail(answers))

AnswersOf(row, isFirstEmployee, q, ca) ==
  LET userAnswers == Slice(row, questionStartCol, questionStartCol + Len(q))
  IN [i \in 1..Len(userAnswers) |->
        [questionIndex |-> i - 1,
         selectedAnswer |-> Trim(userAnswers[i]),
         isCorrect |-> IF isFirstEmployee THEN TRUE
                       ELSE isAnswerCorrect(ca, Trim(userAnswers[i]), i - 1)]]

\* faulty variant of mapRowToTestResponse: a row without name is mapped too
mapRowToTestResponseWithoutNameCheck(row, isFirstEmployee, q, ca, t) ==
  IF Len(row) < 6 THEN NULL
  ELSE [fullName |-> Trim(Cell(row, 2)),
        employeeId |-> Trim(Cell(row, 3)),
        dateOfBirth |-> Trim(Cell(row, 4)),
        department |-> Trim(Cell(row, 5)),
        score |-> CountCorrect(AnswersOf(row, isFirstEmployee, q, ca)),
        answers |-> AnswersOf(row, isFirstEmployee, q, ca),
        submissionDate |-> SubmissionDate(Cell(row, 0), t),
        originalScore |-> Cell(row, 1),
        timestamp |-> Cell(row, 0),
        isReferenceEmployee |-> isFirstEmployee]

mapRowToTestResponse(row, isFirstEmployee, q, ca, t) ==
  IF Len(row) < 6 THEN NULL
  ELSE IF Trim(Cell(row, 2)) = <<>> THEN NULL
  ELSE [fullName |-> Trim(Cell(row, 2)),
        employeeId |-> Trim(Cell(row, 3)),
        dateOfBirth |-> Trim(Cell(row, 4)),
        department |-> Trim(Cell(row, 5)),
        score |-> CountCorrect(AnswersOf(row, isFirstEmployee, q, ca)),
        answers |-> AnswersOf(row, isFirstEmployee, q, ca),
        submissionDate |-> SubmissionDate(Cell(row, 0), t),
        originalScore |-> Cell(row, 1),
        timestamp |-> Cell(row, 0),
        isReferenceEmployee |-> isFirstEmployee]

RECURSIVE MapDataRows(_, _, _, _, _)
MapDataRows(dataRows, i, q, ca, t) ==
  IF i >= Len(dataRows) THEN <<>>
  ELSE LET testResponse == mapRowToTestResponse(dataRows[i + 1], i = 0, q, ca, t)
       IN (IF testResponse # NULL THEN <<testResponse>> ELSE <<>>)
            \o MapDataRows(dataRows, i + 1, q, ca, t)

\* faulty variant of processSheetData: the rows are graded against the
\* question set and key found on entry, which are replaced afterwards
processSheetDataWithKeyOnEntry(rows, q, ca, t) ==
  IF Len(rows) <= 1
    THEN [QUESTIONS |-> q, CORRECT_ANSWERS |-> ca, testResponses |-> <<>>]
    ELSE LET init == initializeCorrectAnswers(rows, q, ca) IN
      [QUESTIONS |-> init.QUESTIONS,
       CORRECT_ANSWERS |-> init.CORRECT_ANSWERS,
       testResponses |->
         IF init.ok THEN MapDataRows(Tail(rows), 0, q, ca, t) ELSE <<>>]

\* processSheetData: the new globals and the returned testResponses
processSheetData(rows, q, ca, t) ==
  IF Len(rows) <= 1
    THEN [QUESTIONS |-> q, CORRECT_ANSWERS |-> ca, testResponses |-> <<>>]
    ELSE LET init == initializeCorrectAnswers(rows, q, ca) IN
      [QUESTIONS |-> init.QUESTIONS,
       CORRECT_ANSWERS |-> init.CORRECT_ANSWERS,
       testResponses |->
         IF init.ok
           THEN MapDataRows(Tail(rows), 0, init.QUESTIONS, init.CORRECT_ANSWERS, t)
           ELSE <<>>]

----------------------------------------------------------------------------
(* Built-in sample table *)

FALLBACK_DATA ==
  <<
    <<
      <<"T","i","m","e","s","t","a","m","p">>,
      <<"S","c","o","r","e">>,
      <<"F","u","l","l"," ","N","a","m","e">>,
      <<"E","m","p","l","o","y","e","e"," ","I","D">>,
      <<"D","a","t","e"," ","o","f"," ","B","i","r","t","h"," ","(","D","D","/","M","M","/","Y","Y","Y","Y",")">>,
      <<"D","e","p","a","r","t","m","e","n","t">>,
      <<"1","."," ","W","h","i","c","h"," ","l","a","w"," ","s","t","a","t","e","s"," ","t","h","a","t"," ","s","t","r","e","s","s"," ","i","s"," ","p","r","o","p","o","r","t","i","o","n","a","l"," ","t","o"," ","s","t","r","a","i","n"," ","w","i","t","h","i","n"," ","t","h","e"," ","e","l","a","s","t","i","c"," ","l","i","m","i","t","?">>,
      <<"2","."," ","W","h","i","c","h"," ","t","y","p","e"," ","o","f"," ","g","e","a","r"," ","i","s"," ","u","s","e","d"," ","t","o"," ","t","r","a","n","s","m","i","t"," ","m","o","t","i","o","n"," ","b","e","t","w","e","e","n"," ","i","n","t","e","r","s","e","c","t","i","n","g"," ","s","h","a","f","t","s","?">>,
      <<"3","."," ","W","h","i","c","h"," ","c","y","c","l","e"," ","i","s"," ","u","s","e","d"," ","i","n"," ","I","C"," ","e","n","g","i","n","e","s","?">>,
      <<"4","."," ","U","n","i","t"," ","o","f"," ","P","o","w","e","r"," ","i","s","?">>,
      <<"5","."," ","T","h","e"," ","h","a","r","d","n","e","s","s"," ","t","e","s","t"," ","p","e","r","f","o","r","m","e","d"," ","u","s","i","n","g"," ","d","i","a","m","o","n","d"," ","p","y","r","a","m","i","d"," ","i","s"," ","c","a","l","l","e","d","?">>,
      <<"6","."," ","W","h","i","c","h"," ","o","f"," ","t","h","e"," ","f","o","l","l","o","w","i","n","g"," ","i","s"," ","N","O","T"," ","a"," ","w","e","l","d","i","n","g"," ","p","r","o","c","e","s","s","?">>,
      <<"7","."," ","I","n"," ","t","h","e","r","m","o","d","y","n","a","m","i","c","s",","," ","t","h","e"," ","S","I"," ","u","n","i","t"," ","o","f"," ","e","n","t","r","o","p","y"," ","i","s","?">>,
      <<"8","."," ","W","h","i","c","h"," ","m","e","t","a","l"," ","i","s"," ","c","o","m","m","o","n","l","y"," ","u","s","e","d"," ","i","n"," ","a","i","r","c","r","a","f","t"," ","m","a","n","u","f","a","c","t","u","r","i","n","g","?">>,
      <<"9","."," ","W","h","i","c","h"," ","o","f"," ","t","h","e"," ","f","o","l","l","o","w","i","n","g"," ","i","s"," ","a"," ","n","o","n","-","d","e","s","t","r","u","c","t","i","v","e"," ","t","e","s","t","i","n","g"," ","m","e","t","h","o","d","?">>,
      <<"1","0","."," ","T","h","e"," ","p","r","o","c","e","s","s"," ","o","f"," ","c","o","o","l","i","n","g"," ","a"," ","m","a","t","e","r","i","a","l"," ","r","a","p","i","d","l","y"," ","t","o"," ","i","n","c","r","e","a","s","e"," ","h","a","r","d","n","e","s","s"," ","i","s","?">>
    >>,
    <<
      <<"8","/","1","6","/","2","0","2","5"," ","1","4",":","1","0",":","5","9">>,
      <<>>,
      <<"S","h","u","b","h","a","m"," ","K","u","m","a","r">>,
      <<"1","2","3">>,
      <<"1","2","/","2","/","1","9","9","5">>,
      <<"I","T">>,
      <<"H","o","o","k","e","'","s"," ","L","a","w">>,
      <<"B","e","v","e","l"," ","G","e","a","r">>,
      <<"O","t","t","o"," ","C","y","c","l","e">>,
      <<"W","a","t","t">>,
      <<"V","i","c","k","e","r","s">>,
      <<"C","N","C">>,
      <<"J","/","K">>,
      <<"A","l","u","m","i","n","i","u","m">>,
      <<"X","-","R","a","y"," ","I","n","s","p","e","c","t","i","o","n">>,
      <<"Q","u","e","n","c","h","i","n","g">>
    >>,
    <<
      <<"8","/","1","6","/","2","0","2","5"," ","1","9",":","0","7",":","2","1">>,
      <<>>,
      <<"R","a","j","e","s","h"," ","S","h","a","r","m","a">>,
      <<"4","5","6">>,
      <<"1","3","/","0","2","/","1","9","9","0">>,
      <<"M","e","c","h","a","n","i","c","a","l">>,
      <<"H","o","o","k","e","'","s"," ","L","a","w">>,
      <<"B","e","v","e","l"," ","G","e","a","r">>,
      <<"O","t","t","o"," ","C","y","c","l","e">>,
      <<"W","a","t","t">>,
      <<"M","o","h","s">>,
      <<"C","N","C">>,
      <<"J","/","K">>,
      <<"C","o","p","p","e","r">>,
      <<"X","-","R","a","y"," ","I","n","s","p","e","c","t","i","o","n">>,
      <<"Q","u","e","n","c","h","i","n","g">>
    >>,
    <<
      <<"8","/","1","7","/","2","0","2","5"," ","1","0",":","1","5",":","3","0">>,
      <<>>,
      <<"P","r","i","y","a"," ","S","i","n","g","h">>,
      <<"7","8","9">>,
      <<"2","5","/","0","5","/","1","9","9","2">>,
      <<"E","l","e","c","t","r","i","c","a","l">>,
      <<"P","a","s","c","a","l","'","s"," ","L","a","w">>,
      <<"B","e","v","e","l"," ","G","e","a","r">>,
      <<"C","a","r","n","o","t"," ","C","y","c","l","e">>,
      <<"W","a","t","t">>,
      <<"V","i","c","k","e","r","s">>,
      <<"T","I","G">>,
      <<"W">>,
      <<"A","l","u","m","i","n","i","u","m">>,
      <<"B","e","n","d"," ","T","e","s","t">>,
      <<"N","o","r","m","a","l","i","z","i","n","g">>
    >>,
    <<
      <<"8","/","1","8","/","2","0","2","5"," ","1","1",":","2","0",":","4","5">>,
      <<>>,
      <<"A","m","i","t"," ","P","a","t","e","l">>,
      <<"1","0","1">>,
      <<"1","5","/","0","3","/","1","9","8","8">>,
      <<"P","r","o","d","u","c","t","i","o","n">>,
      <<"H","o","o","k","e","'","s"," ","L","a","w">>,
      <<"S","p","u","r"," ","G","e","a","r">>,
      <<"O","t","t","o"," ","C","y","c","l","e">>,
      <<"W","a","t","t">>,
      <<"B","r","i","n","e","l","l">>,
      <<"M","I","G">>,
      <<"J","/","K">>,
      <<"S","t","e","e","l">>,
      <<"U","l","t","r","a","s","o","n","i","c"," ","T","e","s","t","i","n","g">>,
      <<"T","e","m","p","e","r","i","n","g">>
    >>,
    <<
      <<"8","/","1","8","/","2","0","2","5"," ","1","5",":","3","5",":","1","2">>,
      <<>>,
      <<"N","e","h","a"," ","G","u","p","t","a">>,
      <<"2","0","2">>,
      <<"2","2","/","0","7","/","1","9","9","3">>,
      <<"Q","u","a","l","i","t","y">>,
      <<"H","o","o","k","e","'","s"," ","L","a","w">>,
      <<"B","e","v","e","l"," ","G","e","a","r">>,
      <<"D","i","e","s","e","l"," ","C","y","c","l","e">>,
      <<"W","a","t","t">>,
      <<"V","i","c","k","e","r","s">>,
      <<"B","r","a","z","i","n","g">>,
      <<"J","/","K">>,
      <<"A","l","u","m","i","n","i","u","m">>,
      <<"M","a","g","n","e","t","i","c"," ","P","a","r","t","i","c","l","e">>,
      <<"Q","u","e","n","c","h","i","n","g">>
    >>
  >>

----------------------------------------------------------------------------
(* Aggregator: the body of GET /api/dashboard-stats after processSheetData *)

RECURSIVE SumScores(_)
SumScores(rs) == IF rs = <<>> THEN 0 ELSE Head(rs).score + SumScores(Tail(rs))

\* faulty variant of CountPassed: a score equal to the threshold does not pass
RECURSIVE CountPassedAboveThreshold(_)
CountPassedAboveThreshold(rs) ==
  IF rs = <<>> THEN 0
  ELSE (IF Head(rs).score > PassThreshold THEN 1 ELSE 0)
         + CountPassedAboveThreshold(Tail(rs))

RECURSIVE CountPassed(_)
CountPassed(rs) ==
  IF rs = <<>> THEN 0
  ELSE (IF Head(rs).score >= PassThreshold THEN 1 ELSE 0) + CountPassed(Tail(rs))

\* faulty variant of FilterDept: departments compared without regard to case
RECURSIVE FilterDeptIgnoringCase(_, _)
FilterDeptIgnoringCase(rs, dept) ==
  IF rs = <<>> THEN <<>>
  ELSE (IF ToLowerCase(Head(rs).department) = ToLowerCase(dept)
          THEN <<Head(rs)>> ELSE <<>>)
         \o FilterDeptIgnoringCase(Tail(rs), dept)

\* testResponses.filter(r => r.department === dept)
RECURSIVE FilterDept(_, _)
FilterDept(rs, dept) ==
  IF rs = <<>> THEN <<>>
  ELSE (IF Head(rs).department = dept THEN <<Head(rs)>> ELSE <<>>)
         \o FilterDept(Tail(rs), dept)

InSeq(x, s) == \E i \in 1..Len(s) : s[i] = x

\* [...new Set(testResponses.map(r => r.department).filter(d => d))]
RECURSIVE DistinctDepartments(_, _)
DistinctDepartments(rs, seen) ==
  IF rs = <<>> THEN seen
  ELSE LET d == Head(rs).department IN
    DistinctDepartments(Tail(rs),
      IF d # <<>> /\ ~InSeq(d, seen) THEN Append(seen, d) ELSE seen)

(* IEEE 754 double arithmetic on the non-negative values the averages take: *)
(* a double is zero or bits * 2^exp with bits a 53-digit binary numeral,    *)
(* most significant digit first and equal to 1                              *)

MantissaBits == 53

DoubleZero == [bits |-> <<>>, exp |-> 0]

\* binary numeral of the integer x > 0
RECURSIVE BitsOf(_)
BitsOf(x) == IF x = 0 THEN <<>> ELSE Append(BitsOf(x \div 2), x % 2)

RECURSIVE ValueOf(_)
ValueOf(bits) ==
  IF bits = <<>> THEN 0
  ELSE 2 * ValueOf(SubSeq(bits, 1, Len(bits) - 1)) + bits[Len(bits)]

Zeros(k) == [i \in 1..k |-> 0]

\* numeral + 1, one digit longer when every digit is 1
RECURSIVE Increment(_)
Increment(bits) ==
  IF bits = <<>> THEN <<1>>
  ELSE IF bits[Len(bits)] = 0 THEN SubSeq(bits, 1, Len(bits) - 1) \o <<1>>
  ELSE Increment(SubSeq(bits, 1, Len(bits) - 1)) \o <<0>>

\* the double nearest to bits * 2^exp (+ a positive amount below one unit of
\* the last digit when sticky), ties to the even mantissa
RoundToDouble(bits, exp, sticky) ==
  LET len == Len(bits) IN
    IF len <= MantissaBits
      THEN [bits |-> bits \o Zeros(MantissaBits - len), exp |-> exp - (MantissaBits - len)]
      ELSE
        LET top == SubSeq(bits, 1, MantissaBits)
            guard == bits[MantissaBits + 1]
            rest == sticky \/ \E i \in (MantissaBits + 2)..len : bits[i] = 1
            up == guard = 1 /\ (rest \/ top[MantissaBits] = 1)
            rounded == IF up THEN Increment(top) ELSE top
        IN IF Len(rounded) > MantissaBits
             THEN [bits |-> SubSeq(rounded, 1, MantissaBits), exp |-> exp + (len - MantissaBits) + 1]
             ELSE [bits |-> rounded, exp |-> exp + (len - MantissaBits)]

\* the next k digits of the binary expansion of r / n, 0 <= r < n
RECURSIVE FractionDigits(_, _, _)
FractionDigits(r, n, k) ==
  IF k = 0 THEN <<>>
  ELSE <<(2 * r) \div n>> \o FractionDigits((2 * r) % n, n, k - 1)

\* the remainder left after those k digits
RECURSIVE FractionRemainder(_, _, _)
FractionRemainder(r, n, k) ==
  IF k = 0 THEN r ELSE FractionRemainder((2 * r) % n, n, k - 1)

\* number of zero digits the expansion of r / n starts with, 0 < r < n
RECURSIVE LeadingZeros(_, _)
LeadingZeros(r, n) == IF 2 * r >= n THEN 0 ELSE 1 + LeadingZeros(2 * r, n)

\* a / b in double arithmetic, for integers a >= 0, b > 0
DoubleDivide(a, b) ==
  IF a = 0 THEN DoubleZero
  ELSE IF a >= b
    THEN LET int == BitsOf(a \div b)
             k == MantissaBits + 1 - Len(int)
         IN RoundToDouble(int \o FractionDigits(a % b, b, k), -k,
                          FractionRemainder(a % b, b, k) # 0)
    ELSE LET z == LeadingZeros(a, b)
             r == FractionRemainder(a, b, z)
             k == MantissaBits + 1
         IN RoundToDouble(FractionDigits(r, b, k), -(z + k),
                          FractionRemainder(r, b, k) # 0)

\* numeral of ValueOf(bits) * k + carry, digits from the last to the first
RECURSIVE TimesSmall(_, _, _)
TimesSmall(bits, k, carry) ==
  IF bits = <<>> THEN BitsOf(carry)
  ELSE LET d == bits[Len(bits)] * k + carry
       IN IF d % 2 = 0
            THEN TimesSmall(SubSeq(bits, 1, Len(bits) - 1), k, d \div 2) \o <<0>>
            ELSE TimesSmall(SubSeq(bits, 1, Len(bits) - 1), k, d \div 2) \o <<1>>

\* x * k in double arithmetic, for an integer k > 0
DoubleTimes(x, k) ==
  IF x.bits = <<>> THEN DoubleZero
  ELSE RoundToDouble(TimesSmall(x.bits, k, 0), x.exp, FALSE)

\* Math.floor(x), as an integer
MathFloor(x) ==
  IF x.bits = <<>> \/ -x.exp >= MantissaBits THEN 0
  ELSE IF x.exp >= 0 THEN ValueOf(x.bits \o Zeros(x.exp))
  ELSE ValueOf(SubSeq(x.bits, 1, MantissaBits + x.exp))

\* faulty variant of MathRound: a tie goes to the smaller integer
MathRoundTiesDown(x) ==
  IF x.bits = <<>> \/ x.exp >= 0 THEN MathFloor(x)
  ELSE IF -x.exp > MantissaBits THEN 0
  ELSE MathFloor(x) +
         (IF /\ x.bits[MantissaBits + x.exp + 1] = 1
             /\ \E i \in (MantissaBits + x.exp + 2)..MantissaBits : x.bits[i] = 1
            THEN 1 ELSE 0)

\* Math.round(x), as an integer: the nearest integer, a tie to the larger one
MathRound(x) ==
  IF x.bits = <<>> \/ x.exp >= 0 THEN MathFloor(x)
  ELSE IF -x.exp > MantissaBits THEN 0
  ELSE MathFloor(x) + x.bits[MantissaBits + x.exp + 1]

\* Math.round((sum / n) * 10), the numerator of the value Math.round(..) / 10
RoundedAverageTenths(sum, n) == MathRound(DoubleTimes(DoubleDivide(sum, n), 10))

DepartmentStat(rs, dept) ==
  LET deptResponses == FilterDept(rs, dept)
      deptPassed == CountPassed(deptResponses)
  IN [name |-> dept,
      totalCandidates |-> Len(deptResponses),
      passed |-> deptPassed,
      failed |-> Len(deptResponses) - deptPassed,
      averageScore |-> RoundedAverageTenths(SumScores(deptResponses), Len(deptResponses))]

EmptyStats ==
  [totalResponses |-> 0,
   passedCount |-> 0,
   failedCount |-> 0,
   averageScore |-> 0,
   departments |-> <<>>,
   departmentStats |-> <<>>,
   responses |-> <<>>,
   referenceEmployee |-> NULL,
   metadata |-> [message |-> "No data available", cacheStatus |-> "Empty"]]

\* faulty variant of DashboardStats: no early return for an empty list, so
\* the average is 0 / 0 = NaN (shown as -1) and testResponses[0] is undefined
DashboardStatsWithoutEmptyCase(testResponses, q, ca) ==
  LET totalResponses == Len(testResponses)
      passedCount == CountPassed(testResponses)
      departments == DistinctDepartments(testResponses, <<>>)
  IN [totalResponses |-> totalResponses,
      passedCount |-> passedCount,
      failedCount |-> totalResponses - passedCount,
      averageScore |->
        IF totalResponses = 0 THEN -1
        ELSE RoundedAverageTenths(SumScores(testResponses), totalResponses),
      departments |-> departments,
      departmentStats |->
        [i \in 1..Len(departments) |-> DepartmentStat(testResponses, departments[i])],
      responses |-> testResponses,
      referenceEmployee |-> IF totalResponses = 0 THEN NULL ELSE testResponses[1],
      metadata |-> [questions |-> q,
                    correctAnswers |-> ca,
                    referenceEmployeeName |->
                      IF totalResponses = 0 THEN <<"U", "n", "k", "n", "o", "w", "n">>
                      ELSE testResponses[1].fullName,
                    totalQuestions |-> Len(q)]]

\* data of the dashboard-stats response; averageScore fields hold tenths
DashboardStats(testResponses, q, ca) ==
  IF Len(testResponses) = 0 THEN EmptyStats
  ELSE
    LET totalResponses == Len(testResponses)
        passedCount == CountPassed(testResponses)
        departments == DistinctDepartments(testResponses, <<>>)
    IN [totalResponses |-> totalResponses,
        passedCount |-> passedCount,
        failedCount |-> totalResponses - passedCount,
        averageScore |-> RoundedAverageTenths(SumScores(testResponses), totalResponses),
        departments |-> departments,
        departmentStats |->
          [i \in 1..Len(departments) |-> DepartmentStat(testResponses, departments[i])],
        responses |-> testResponses,
        referenceEmployee |-> testResponses[1],
        metadata |-> [questions |-> q,
                      correctAnswers |-> ca,
                      referenceEmployeeName |-> testResponses[1].fullName,
                      totalQuestions |-> Len(q)]]

----------------------------------------------------------------------------
(* Tables the requests are served from *)

DigitChar == <<"0", "1", "2", "3", "4", "5", "6", "7", "8", "9">>

NumberText(i) ==
  IF i < 10 THEN <<DigitChar[i + 1]>>
  ELSE <<DigitChar[(i \div 10) + 1], DigitChar[(i % 10) + 1]>>

\* header of hl cells: the six fixed columns, then "1. Q1", "2. Q2", ...
HeaderRow(hl) ==
  SubSeq(FALLBACK_DATA[1], 1, 6) \o
    [i \in 1..(hl - 6) |-> NumberText(i) \o <<".", " ", "Q">> \o NumberText(i)]

\* data row k of len cells whose first c answer cells are `first`, the others `rest`
DataRow(k, len, name, dept, c, first, rest) ==
  <<FALLBACK_DATA[2][1], <<>>, name, NumberText(k), FALLBACK_DATA[2][5], dept>> \o
    [i \in 1..(len - 6) |-> IF i <= c THEN first ELSE rest]

\* cells as parseCSV leaves them: trimmed
NameCells == {<<>>, <<"A", "l">>}

DeptCells == {<<>>, <<"I", "T">>, <<"i", "t">>}

AnswerCells == {<<>>, <<"a">>, <<"A">>, <<"b">>}

\* header lengths of the sheets with free cells, each with the values of
\* the first answer cell and of the answer cells after it
SheetKinds ==
  {[hl |-> 6, first |-> {<<>>}, rest |-> {<<>>}],
   [hl |-> 7, first |-> AnswerCells, rest |-> {<<>>}],
   [hl |-> 8, first |-> {<<"a">>, <<"b">>}, rest |-> {<<"A">>, <<>>}],
   [hl |-> 17, first |-> {<<"a">>, <<"b">>}, rest |-> {<<"a">>}]}

\* rows may be shorter than the header: parseCSV keeps every row of >= 6 cells
RowLens(hl) == {6, hl - 1, hl} \cap 6..hl

RowShapes(kind) ==
  UNION {
    {[len |-> len, name |-> name, first |-> first, rest |-> rest] :
       name \in NameCells,
       first \in (IF len >= 7 THEN kind.first ELSE {<<>>}),
       rest \in (IF len >= 8 THEN kind.rest ELSE {<<>>})} :
    len \in RowLens(kind.hl)}

\* a sheet of Len(shapes) data rows with the given cells, names and lengths
GradingSheet(hl, shapes) ==
  <<HeaderRow(hl)>> \o
    [k \in 1..Len(shapes) |->
       DataRow(k, shapes[k].len, shapes[k].name,
               IF k = 1 THEN <<"I", "T">> ELSE <<"Q", "A">>,
               1, shapes[k].first, shapes[k].rest)]

FullLen == questionStartCol + QuestionLimit

CorrectCounts == {5, 6}

GradedShapes ==
  {[dept |-> dept, correct |-> c] : dept \in DeptCells, c \in CorrectCounts}

\* a sheet of ten questions: the key row, then Len(shapes) rows of given
\* department and number of answers agreeing with the key
AggregationSheet(name, shapes) ==
  <<HeaderRow(FullLen),
    DataRow(1, FullLen, name, <<"I", "T">>, QuestionLimit, <<"a">>, <<"a">>)>> \o
    [k \in 1..Len(shapes) |->
       DataRow(k + 1, FullLen, <<"A", "l">>, shapes[k].dept,
               shapes[k].correct, <<"A">>, <<"b">>)]

IsSheet(s) ==
  \/ \E kind \in SheetKinds, n \in 1..MaxRows :
       \E shapes \in [1..n -> RowShapes(kind)] : s = GradingSheet(kind.hl, shapes)
  \/ \E name \in NameCells, n \in 0..MaxGraded :
       \E shapes \in [1..n -> GradedShapes] : s = AggregationSheet(name, shapes)
  \/ s = FALLBACK_DATA

Times == 1..MaxTime

----------------------------------------------------------------------------
(* The requests *)

NoResponse == [endpoint |-> "none"]

NoRequest == [pc |-> "idle"]

\* the Login component as constructed
NewLogin ==
  [username |-> "", empId |-> "", errorMessage |-> "", successMessage |-> ""]

\* no Dashboard component has been constructed
NoDashboard == [constructed |-> FALSE]

\* the parts of the program that are at rest
NoHistory == firstRun = {}

NoText == csvData = <<>>

NoFetch ==
  /\ CACHED_DATA = NULL
  /\ CACHE_TIMESTAMP = NULL
  /\ now = 1
  /\ req = NoRequest
  /\ cleared = FALSE

NoPage ==
  /\ login = NewLogin
  /\ route = ""
  /\ timers = 0
  /\ dashboard = NoDashboard

Init ==
  /\ IsSheet(sheet)
  /\ QUESTIONS = <<>>
  /\ CORRECT_ANSWERS = <<>>
  /\ res = NoResponse
  /\ NoHistory /\ NoText /\ NoFetch /\ NoPage

\* GET /api/dashboard-stats, answered at time t from the rows of the sheet
GetDashboardStats(t) ==
  LET rows == sheet IN
  \E p \in {processSheetData(rows, QUESTIONS, CORRECT_ANSWERS, t)} :
     /\ QUESTIONS' = p.QUESTIONS
     /\ CORRECT_ANSWERS' = p.CORRECT_ANSWERS
     /\ res' = [endpoint |-> "dashboard-stats",
                status |-> 200,
                success |-> TRUE,
                data |-> DashboardStats(p.testResponses, p.QUESTIONS, p.CORRECT_ANSWERS)]
     /\ UNCHANGED <<sheet, tableVars, parseVars, fetchVars, loginVars>>

\* GET /api/test-responses
GetTestResponses(t) ==
  LET rows == sheet IN
  \E p \in {processSheetData(rows, QUESTIONS, CORRECT_ANSWERS, t)} :
     /\ QUESTIONS' = p.QUESTIONS
     /\ CORRECT_ANSWERS' = p.CORRECT_ANSWERS
     /\ res' = [endpoint |-> "test-responses",
                status |-> 200,
                success |-> TRUE,
                data |-> p.testResponses,
                totalCount |-> Len(p.testResponses),
                metadata |-> [totalRows |-> Len(rows),
                              processedRows |-> Len(p.testResponses),
                              questionsFromHeader |-> Len(p.QUESTIONS),
                              answersFromFirstEmployee |-> Len(p.CORRECT_ANSWERS)]]
     /\ UNCHANGED <<sheet, tableVars, parseVars, fetchVars, loginVars>>

Next ==
  \/ \E t \in Times : GetDashboardStats(t)
  \/ \E t \in Times : GetTestResponses(t)

Spec == Init /\ [][Next]_vars

----------------------------------------------------------------------------
(* What a state shows of the last request *)

Graded == res.endpoint \in {"dashboard-stats", "test-responses"}

\* the result list of the last request
Responses ==
  IF res.endpoint = "dashboard-stats" THEN res.data.responses
  ELSE IF res.endpoint = "test-responses" THEN res.data
  ELSE <<>>

Summarised == res.endpoint = "dashboard-stats"

\* the data rows that have a name, in sheet order: record j was mapped from
\* NamedRows(..)[j]
RECURSIVE NamedRows(_)
NamedRows(dataRows) ==
  IF dataRows = <<>> THEN <<>>
  ELSE (IF Len(Head(dataRows)) >= 6 /\ Trim(Cell(Head(dataRows), 2)) # <<>>
          THEN <<Head(dataRows)>> ELSE <<>>) \o NamedRows(Tail(dataRows))

Normalised(s) == TrimEnd(TrimStart(ToLowerCase(s)))

IndicesWhere(s, P(_)) == {i \in 1..Len(s) : P(s[i])}

IsCorrectEntry(a) == a.isCorrect

IsPass(r) == r.score >= 6

HasDepartment(r) == r.department # <<>>

\* sum of the scores of the records of rs at the indices in among
ScoreTotal(rs, among) ==
  LET upTo[i \in 0..Len(rs)] ==
        IF i = 0 THEN 0
        ELSE upTo[i - 1] + (IF i \in among THEN rs[i].score ELSE 0)
  IN upTo[Len(rs)]

CandidateTotal(ds) ==
  LET upTo[i \in 0..Len(ds)] ==
        IF i = 0 THEN 0 ELSE upTo[i - 1] + ds[i].totalCandidates
  IN upTo[Len(ds)]

----------------------------------------------------------------------------
(* C1: every record's score is the number of its answer entries marked     *)
(* correct, and the record flagged as the reference scores QUESTIONS.length *)
(* whatever its cells are, also when its row is shorter than the header.   *)
C1_ScoreIsCorrectCountAndReferenceIsFull ==
  \A j \in 1..Len(Responses) :
    /\ Responses[j].score = Cardinality(IndicesWhere(Responses[j].answers, IsCorrectEntry))
    /\ Responses[j].isReferenceEmployee => Responses[j].score = Len(QUESTIONS)

(* C2: with a header of at least 7 cells and a key row, QUESTIONS and      *)
(* CORRECT_ANSWERS both have min(10, headerLength - 6) entries, entry i    *)
(* coming from column 6 + i, a cell missing from row 1 giving "".          *)
C2_KeyAlignedWithQuestions ==
  (Graded /\ Len(sheet) >= 2 /\ Len(sheet[1]) >= 7) =>
    LET n == Min(10, Len(sheet[1]) - 6) IN
      /\ Len(QUESTIONS) = n
      /\ Len(CORRECT_ANSWERS) = n
      /\ \A i \in 1..n :
           /\ QUESTIONS[i] = Trim(StripNumberPrefix(sheet[1][6 + i]))
           /\ CORRECT_ANSWERS[i] = Trim(Cell(sheet[2], 5 + i))

(* C3: an answer entry of a non-reference record is marked correct exactly *)
(* when its cell and the key cell of the same index are equal after        *)
(* trimming and lower-casing, two empty strings included.                  *)
C3_CorrectIffEqualToKey ==
  \A j \in 1..Len(Responses) :
    ~Responses[j].isReferenceEmployee =>
      \A i \in 1..Len(Responses[j].answers) :
        Responses[j].answers[i].isCorrect <=>
          Normalised(Cell(NamedRows(Tail(sheet))[j], 5 + i))
            = Normalised(Cell(CORRECT_ANSWERS, i - 1))

(* C4: after a successful initialization, grading the key row itself as an *)
(* ordinary row marks every entry correct: its score is QUESTIONS.length.  *)
C4_KeyRowRoundTrip ==
  (Graded /\ Len(QUESTIONS) > 0 /\ Len(CORRECT_ANSWERS) > 0) =>
    LET again == mapRowToTestResponse(sheet[2], FALSE, QUESTIONS, CORRECT_ANSWERS, 1)
    IN again # NULL =>
         /\ \A i \in 1..Len(again.answers) : again.answers[i].isCorrect
         /\ again.score = Len(QUESTIONS)

(* C5: in every summary of a non-empty result list the reference record    *)
(* counts as passed: its score is at least 6.                              *)
C5_ReferencePasses ==
  (Summarised /\ res.data.totalResponses > 0) =>
    \A j \in 1..Len(Responses) :
      Responses[j].isReferenceEmployee => Responses[j].score >= 6

(* C6: the first record of a non-empty result list is the record of the    *)
(* first data row and the only one flagged as the reference, so the        *)
(* summary's referenceEmployee is the row that defined the key.            *)
C6_FirstRecordIsTheReference ==
  (Graded /\ Len(Responses) > 0) =>
    /\ Responses[1].isReferenceEmployee
    /\ Responses[1].fullName = Trim(Cell(sheet[2], 2))
    /\ Responses[1].employeeId = Trim(Cell(sheet[2], 3))
    /\ \A j \in 2..Len(Responses) : ~Responses[j].isReferenceEmployee
    /\ Summarised => res.data.referenceEmployee = Responses[1]

(* C7: the summary counts partition the records: totalResponses is the     *)
(* number of records, passedCount the number of records scoring at least 6 *)
(* and failedCount the rest; the same holds inside every department entry  *)
(* over the records of that department.                                    *)
C7_CountsPartitionTheRecords ==
  Summarised =>
    LET rs == res.data.responses IN
      /\ res.data.totalResponses = Len(rs)
      /\ res.data.passedCount = Cardinality(IndicesWhere(rs, IsPass))
      /\ res.data.failedCount = res.data.totalResponses - res.data.passedCount
      /\ \A k \in 1..Len(res.data.departmentStats) :
           LET e == res.data.departmentStats[k]
               members == {i \in 1..Len(rs) : rs[i].department = e.name}
           IN /\ e.totalCandidates = Cardinality(members)
              /\ e.passed = Cardinality({i \in members : rs[i].score >= 6})
              /\ e.failed = e.totalCandidates - e.passed

\* a summary with passed and failed records, also inside one department
C7_Witness ==
  /\ Summarised
  /\ res.data.passedCount >= 1
  /\ res.data.failedCount >= 1
  /\ \E k \in 1..Len(res.data.departmentStats) :
       /\ res.data.departmentStats[k].passed >= 1
       /\ res.data.departmentStats[k].failed >= 1

(* C8: every averageScore is the mean of the scores in scope rounded to    *)
(* one decimal, halves upwards: in tenths, floor((20 * sum + n) / (2 * n)) *)
(* for n records of score sum `sum`.                                       *)
C8_AverageRoundsHalfUp ==
  (Summarised /\ res.data.totalResponses > 0) =>
    LET rs == res.data.responses
        n == Len(rs)
    IN /\ res.data.averageScore = (20 * ScoreTotal(rs, 1..n) + n) \div (2 * n)
       /\ \A k \in 1..Len(res.data.departmentStats) :
            LET e == res.data.departmentStats[k]
                members == {i \in 1..n : rs[i].department = e.name}
                m == Cardinality(members)
            IN e.averageScore = (20 * ScoreTotal(rs, members) + m) \div (2 * m)

\* a summary whose exact mean lies halfway between two tenths
C8_Witness ==
  /\ Summarised
  /\ res.data.totalResponses > 0
  /\ LET rs == res.data.responses IN
       2 * ((10 * ScoreTotal(rs, 1..Len(rs))) % Len(rs)) = Len(rs)

(* C9: departments lists the distinct non-empty department values of the   *)
(* records once each in order of first occurrence; departmentStats has one *)
(* entry per listed department over the records with exactly that          *)
(* department, so the candidates add up to the records with a department.  *)
C9_DepartmentsAreDistinctInOrder ==
  Summarised =>
    LET rs == res.data.responses
        ds == res.data.departments
        first(d) == CHOOSE i \in 1..Len(rs) :
                      rs[i].department = d /\ \A h \in 1..(i - 1) : rs[h].department # d
    IN /\ {ds[k] : k \in 1..Len(ds)} = {rs[i].department : i \in 1..Len(rs)} \ {<<>>}
       /\ \A k, l \in 1..Len(ds) : k < l => ds[k] # ds[l] /\ first(ds[k]) < first(ds[l])
       /\ Len(res.data.departmentStats) = Len(ds)
       /\ \A k \in 1..Len(ds) :
            /\ res.data.departmentStats[k].name = ds[k]
            /\ res.data.departmentStats[k].totalCandidates
                 = Cardinality({i \in 1..Len(rs) : rs[i].department = ds[k]})
       /\ CandidateTotal(res.data.departmentStats)
            = Cardinality(IndicesWhere(rs, HasDepartment))

\* a summary over departments differing only by case, one of them shared by
\* two records, and a record without department
C9_Witness ==
  /\ Summarised
  /\ InSeq(<<"I", "T">>, res.data.departments)
  /\ InSeq(<<"i", "t">>, res.data.departments)
  /\ \E k \in 1..Len(res.data.departmentStats) :
       res.data.departmentStats[k].totalCandidates >= 2
  /\ \E i \in 1..Len(res.data.responses) : res.data.responses[i].department = <<>>

\* no row is graded into a record: the initialization failed or no data row
\* has a name
NothingToReport ==
  \/ Len(QUESTIONS) = 0
  \/ Len(CORRECT_ANSWERS) = 0
  \/ NamedRows(Tail(sheet)) = <<>>

(* C10: for an empty result list the dashboard-stats request succeeds with *)
(* all counts and the average 0, no departments, no department entries and *)
(* referenceEmployee null.                                                 *)
C10_EmptyListGivesZeroSummary ==
  (Summarised /\ NothingToReport) =>
    /\ res.status = 200
    /\ res.success
    /\ res.data.totalResponses = 0
    /\ res.data.passedCount = 0
    /\ res.data.failedCount = 0
    /\ res.data.averageScore = 0
    /\ res.data.departments = <<>>
    /\ res.data.departmentStats = <<>>
    /\ res.data.referenceEmployee = NULL

\* summaries of a sheet whose rows are all nameless, and of a sheet without
\* answer key
C10_Witness ==
  /\ Summarised
  /\ res.data.referenceEmployee = NULL
  /\ \/ Len(QUESTIONS) > 0 /\ Len(CORRECT_ANSWERS) > 0 /\ NamedRows(Tail(sheet)) = <<>>
     \/ Len(QUESTIONS) > 0 /\ Len(CORRECT_ANSWERS) = 0

----------------------------------------------------------------------------
(* The pipeline functions applied to one table after another *)

\* the table of two questions: Alice is the reference, Bob answers A and C
ExampleTable ==
  <<<<<<"T">>, <<"S">>, <<"N", "a", "m", "e">>, <<"I", "D">>, <<"D", "O", "B">>,
      <<"D", "e", "p", "t">>, <<"1", ".", " ", "Q", "1">>, <<"2", ".", " ", "Q", "2">>>>,
    <<<<"t">>, <<>>, <<"A", "l", "i", "c", "e">>, <<"1">>, <<"d">>, <<"I", "T">>,
      <<"A">>, <<"B">>>>,
    <<<<"t">>, <<>>, <<"B", "o", "b">>, <<"2">>, <<"d">>, <<"I", "T">>,
      <<"A">>, <<"C">>>>>>

\* question cells with and without a number prefix
PrefixCells ==
  <<<<"1", ".", "Q">>, <<"1", "2", ".", " ", " ", "Q">>, <<"1", ".", " ", "2", ".", " ", "Q">>,
    <<"Q", " ", "1", ".">>, <<"1", "2">>, <<".", " ", "Q">>, <<"7", ".">>,
    <<"1", " ", ".", "Q">>>>

PrefixTable ==
  <<SubSeq(FALLBACK_DATA[1], 1, 6) \o PrefixCells,
    DataRow(1, 6 + Len(PrefixCells), <<"A", "l">>, <<"I", "T">>, 1, <<"a">>, <<"B">>),
    DataRow(2, 6 + Len(PrefixCells), <<"B", "o">>, <<"I", "T">>, 1, <<"A">>, <<"c">>)>>

HeaderOnlyTable == <<HeaderRow(8)>>

NoQuestionTable ==
  <<HeaderRow(6), DataRow(1, 6, <<"A", "l">>, <<"I", "T">>, 0, <<>>, <<>>)>>

\* row 1 ends before the first question column
ShortKeyTable ==
  <<HeaderRow(7),
    DataRow(1, 6, <<"A", "l">>, <<"I", "T">>, 0, <<>>, <<>>),
    DataRow(2, 7, <<"B", "o">>, <<"I", "T">>, 1, <<"a">>, <<>>)>>

\* rows mapRowToTestResponse skips among rows it maps: four cells only, a
\* name of white space, no name
SkippedRowsTable ==
  <<HeaderRow(8),
    DataRow(1, 8, <<"A", "l">>, <<"I", "T">>, 2, <<"a">>, <<"a">>),
    SubSeq(DataRow(2, 8, <<"B", "o">>, <<"I", "T">>, 2, <<"a">>, <<"a">>), 1, 4),
    DataRow(3, 8, <<" ", " ">>, <<"I", "T">>, 2, <<"a">>, <<"a">>),
    DataRow(4, 8, <<"C", "y">>, <<"Q", "A">>, 1, <<"a">>, <<"b">>),
    DataRow(5, 8, <<>>, <<"Q", "A">>, 2, <<"a">>, <<"a">>),
    DataRow(6, 7, <<" ", "D", "i">>, <<>>, 1, <<"A">>, <<>>)>>

Tables ==
  <<ExampleTable, PrefixTable, HeaderOnlyTable, NoQuestionTable, ShortKeyTable,
    SkippedRowsTable, FALLBACK_DATA, <<>>>>

\* the part of a result list that does not depend on the clock
Outcome(testResponses) ==
  [j \in 1..Len(testResponses) |->
     [fullName |-> testResponses[j].fullName,
      score |-> testResponses[j].score,
      answers |-> testResponses[j].answers,
      isReferenceEmployee |-> testResponses[j].isReferenceEmployee]]

Statistics(stats) ==
  [totalResponses |-> stats.totalResponses,
   passedCount |-> stats.passedCount,
   failedCount |-> stats.failedCount,
   averageScore |-> stats.averageScore,
   departments |-> stats.departments,
   departmentStats |-> stats.departmentStats]

InitTables ==
  /\ sheet = <<>>
  /\ QUESTIONS = <<>>
  /\ CORRECT_ANSWERS = <<>>
  /\ res = NoResponse
  /\ NoHistory /\ NoText /\ NoFetch /\ NoPage

\* processSheetData(rows) followed by the aggregation of dashboard-stats and
\* the counts test-responses reports, on table k at time t; keep: this run
\* is the one later runs are compared with
ProcessTable(k, t, keep) ==
  \E p \in {processSheetData(Tables[k], QUESTIONS, CORRECT_ANSWERS, t)} :
    \E stats \in {DashboardStats(p.testResponses, p.QUESTIONS, p.CORRECT_ANSWERS)} :
      /\ sheet' = Tables[k]
      /\ QUESTIONS' = p.QUESTIONS
      /\ CORRECT_ANSWERS' = p.CORRECT_ANSWERS
      /\ res' = [endpoint |-> "processSheetData",
                 table |-> k,
                 testResponses |-> p.testResponses,
                 stats |-> stats,
                 questionsFromHeader |-> Len(p.QUESTIONS),
                 answersFromFirstEmployee |-> Len(p.CORRECT_ANSWERS)]
      /\ UNCHANGED <<parseVars, fetchVars, loginVars>>
      /\ firstRun' = IF keep /\ firstRun = {}
                     THEN {[table |-> k,
                            outcome |-> Outcome(p.testResponses),
                            statistics |-> Statistics(stats),
                            between |-> FALSE]}
                     ELSE {[f EXCEPT !.between = f.between \/ f.table # k] : f \in firstRun}

\* initializeCorrectAnswers(rows) on table k
Initialize(k) ==
  \E init \in {initializeCorrectAnswers(Tables[k], QUESTIONS, CORRECT_ANSWERS)} :
    /\ sheet' = Tables[k]
    /\ QUESTIONS' = init.QUESTIONS
    /\ CORRECT_ANSWERS' = init.CORRECT_ANSWERS
    /\ res' = [endpoint |-> "initializeCorrectAnswers", table |-> k, returned |-> init.ok]
    /\ UNCHANGED <<firstRun, parseVars, fetchVars, loginVars>>

\* mapRowToTestResponse(row, isFirstEmployee) on row j of the table last
\* passed in
MapRow(j, isFirstEmployee, t) ==
  /\ j \in 1..Len(sheet)
  /\ res' = [endpoint |-> "mapRowToTestResponse",
             row |-> sheet[j],
             isFirstEmployee |-> isFirstEmployee,
             returned |-> mapRowToTestResponse(sheet[j], isFirstEmployee,
                                               QUESTIONS, CORRECT_ANSWERS, t)]
  /\ UNCHANGED <<sheet, QUESTIONS, CORRECT_ANSWERS, firstRun, parseVars, fetchVars, loginVars>>

NextTables ==
  \/ \E k \in 1..Len(Tables), t \in Times, keep \in BOOLEAN : ProcessTable(k, t, keep)
  \/ \E k \in 1..Len(Tables) : Initialize(k)
  \/ \E j \in 1..Len(sheet), b \in BOOLEAN, t \in Times : MapRow(j, b, t)

SpecTables == InitTables /\ [][NextTables]_vars

----------------------------------------------------------------------------
Processed == res.endpoint = "processSheetData"

(* C11: processing a table of one row, the header, gives no record, an     *)
(* all-zero summary and an empty question set and answer key, whatever     *)
(* tables were processed before.                                           *)
C11_HeaderOnlyGivesNothing ==
  (Processed /\ Len(sheet) = 1) =>
    /\ res.testResponses = <<>>
    /\ res.stats.totalResponses = 0
    /\ res.stats.passedCount = 0
    /\ res.stats.failedCount = 0
    /\ res.stats.averageScore = 0
    /\ QUESTIONS = <<>>
    /\ CORRECT_ANSWERS = <<>>
    /\ res.questionsFromHeader = 0
    /\ res.answersFromFirstEmployee = 0

(* C12: processing a table again, other tables having been processed in    *)
(* between, gives the same scores, the same per-answer flags and the same  *)
(* summary statistics as the earlier run on that table.                    *)
C12_SameTableSameOutcome ==
  Processed =>
    \A f \in firstRun :
      f.table = res.table =>
        /\ Outcome(res.testResponses) = f.outcome
        /\ Statistics(res.stats) = f.statistics

\* a table with graded rows processed again after another table
C12_Witness ==
  /\ Processed
  /\ \E f \in firstRun :
       /\ f.table = res.table
       /\ f.between
       /\ Len(f.outcome) >= 2
       /\ f.statistics.failedCount >= 1

----------------------------------------------------------------------------
Blank(c) == \A i \in 1..Len(c) : c[i] \in WhiteSpace

Keyed == Len(sheet) >= 2 /\ Len(sheet[1]) > 6 /\ Len(sheet[2]) > 6

(* C17: mapRowToTestResponse returns null exactly for a row of fewer than  *)
(* 6 cells or with a full-name cell that is empty after trimming; in a     *)
(* processed table such rows are skipped and the others mapped, so every   *)
(* record has a name and the records follow the order of their rows.       *)
C17_NullExactlyForShortOrNamelessRows ==
  /\ res.endpoint = "mapRowToTestResponse" =>
       (res.returned = NULL <=> (Len(res.row) < 6 \/ Blank(Cell(res.row, 2))))
  /\ Processed =>
       /\ \A j \in 1..Len(res.testResponses) : res.testResponses[j].fullName # <<>>
       /\ Keyed =>
            LET kept == {i \in 2..Len(sheet) :
                           Len(sheet[i]) >= 6 /\ ~Blank(Cell(sheet[i], 2))}
            IN /\ Len(res.testResponses) = Cardinality(kept)
               /\ \E at \in [1..Len(res.testResponses) -> kept] :
                    /\ \A j, l \in 1..Len(res.testResponses) : j < l => at[j] < at[l]
                    /\ \A j \in 1..Len(res.testResponses) :
                         res.testResponses[j].employeeId = Cell(sheet[at[j]], 3)

\* a processed table from which a row of four cells and rows without name
\* were skipped and later rows mapped
C17_Witness ==
  /\ Processed
  /\ Len(res.testResponses) >= 3
  /\ \E i, j, l \in 2..Len(sheet) :
       /\ i < l /\ j < l
       /\ Len(sheet[i]) < 6
       /\ Len(sheet[j]) >= 6 /\ Blank(Cell(sheet[j], 2))
       /\ Len(sheet[l]) >= 6 /\ ~Blank(Cell(sheet[l], 2))

(* C18: initializeCorrectAnswers returns false exactly when the table has  *)
(* fewer than 2 rows or no question or no answer results (the header or    *)
(* row 1 has no cell after the sixth); processSheetData then returns the   *)
(* empty list.                                                             *)
C18_InitializerFailsExactlyWithoutKey ==
  /\ res.endpoint = "initializeCorrectAnswers" =>
       /\ res.returned <=> Keyed
       /\ (Len(sheet) >= 2 /\ ~res.returned) =>
            (Len(QUESTIONS) = 0 \/ Len(CORRECT_ANSWERS) = 0)
       /\ res.returned => (Len(QUESTIONS) > 0 /\ Len(CORRECT_ANSWERS) > 0)
  /\ (Processed /\ ~Keyed) => res.testResponses = <<>>

\* the initializer refusing a table of two rows whose row 1 has no answer
C18_Witness ==
  /\ res.endpoint = "initializeCorrectAnswers"
  /\ ~res.returned
  /\ Len(sheet) >= 2
  /\ Len(QUESTIONS) > 0
  /\ Len(CORRECT_ANSWERS) = 0

\* q is c without a leading run of digits, a period and the white space
\* after it, or c itself when c does not start that way
IsQuestionOf(q, c) ==
  LET prefixed == \E d \in 1..Len(c) :
                    /\ \A i \in 1..d : c[i] \in Digits
                    /\ d < Len(c) /\ c[d + 1] = "."
  IN IF prefixed
       THEN \E d \in 1..Len(c), n \in 1..Len(c) :
              /\ \A i \in 1..d : c[i] \in Digits
              /\ d < Len(c) /\ c[d + 1] = "."
              /\ n >= d + 1
              /\ \A i \in (d + 2)..n : c[i] \in WhiteSpace
              /\ n < Len(c) => c[n + 1] \notin WhiteSpace
              /\ q = SubSeq(c, n + 1, Len(c))
       ELSE q = c

\* x is c without the white space at its ends
IsTrimOf(x, c) ==
  \E lo \in 0..Len(c), hi \in 0..Len(c) :
    /\ lo <= hi
    /\ x = SubSeq(c, lo + 1, hi)
    /\ \A i \in 1..lo : c[i] \in WhiteSpace
    /\ \A i \in (hi + 1)..Len(c) : c[i] \in WhiteSpace
    /\ x # <<>> => (x[1] \notin WhiteSpace /\ x[Len(x)] \notin WhiteSpace)

(* C19: after the initializer, question i is header cell 6+i without its   *)
(* number prefix (digits, a period, white space) and nothing else removed, *)
(* key i is the trimmed cell 6+i of row 1; the example table gives         *)
(* questions Q1, Q2, key A, B, Alice scoring 2 and Bob 1.                  *)
C19_QuestionsAndKeyFromTheirCells ==
  /\ (res.endpoint \in {"initializeCorrectAnswers", "processSheetData"} /\ Len(sheet) >= 2) =>
       /\ \A i \in 1..Len(QUESTIONS) : IsQuestionOf(QUESTIONS[i], sheet[1][6 + i])
       /\ \A i \in 1..Len(CORRECT_ANSWERS) : IsTrimOf(CORRECT_ANSWERS[i], sheet[2][6 + i])
  /\ (Processed /\ sheet = ExampleTable) =>
       /\ QUESTIONS = <<<<"Q", "1">>, <<"Q", "2">>>>
       /\ CORRECT_ANSWERS = <<<<"A">>, <<"B">>>>
       /\ Len(res.testResponses) = 2
       /\ res.testResponses[1].fullName = <<"A", "l", "i", "c", "e">>
       /\ res.testResponses[1].score = 2
       /\ res.testResponses[2].fullName = <<"B", "o", "b">>
       /\ res.testResponses[2].score = 1

\* the initializer has read header cells with one prefix, with two, with a
\* prefix of two digits and without prefix
C19_Witness ==
  /\ res.endpoint = "initializeCorrectAnswers"
  /\ sheet = PrefixTable
  /\ Len(QUESTIONS) = Len(PrefixCells)
  /\ QUESTIONS[1] = <<"Q">>
  /\ QUESTIONS[2] = <<"Q">>
  /\ QUESTIONS[3] = <<"2", ".", " ", "Q">>
  /\ QUESTIONS[4] = PrefixCells[4]

----------------------------------------------------------------------------
(* CSV parser *)

\* csvData.split('\n'): the pieces between line feeds, empty pieces included
SplitLines(text) ==
  LET feeds == SelectSeq([k \in 1..Len(text) |-> k], LAMBDA k : text[k] = "\n")
      starts == <<0>> \o feeds
      ends == Append(feeds, Len(text) + 1)
  IN [j \in 1..Len(ends) |-> SubSeq(text, starts[j] + 1, ends[j] - 1)]

\* .filter(line => line.trim())
NonBlankLines(lines) == SelectSeq(lines, LAMBDA line : Trim(line) # <<>>)

\* faulty variant of ScanLine: a quote always toggles the quoted state, so
\* a doubled quote adds nothing to the field
RECURSIVE ScanLineTogglingQuotes(_, _, _, _, _)
ScanLineTogglingQuotes(line, i, current, inQuotes, row) ==
  IF i >= Len(line) THEN Append(row, Trim(current))
  ELSE LET char == line[i + 1] IN
    IF char = "\"" THEN ScanLineTogglingQuotes(line, i + 1, current, ~inQuotes, row)
    ELSE IF char = "," /\ ~inQuotes
      THEN ScanLineTogglingQuotes(line, i + 1, <<>>, inQuotes, Append(row, Trim(current)))
    ELSE ScanLineTogglingQuotes(line, i + 1, Append(current, char), inQuotes, row)

\* one pass of the while loop, at position st.i of the line
ScanStep(line, st) ==
  LET char == line[st.i + 1]
      nextChar == IF st.i + 2 <= Len(line) THEN line[st.i + 2] ELSE "undefined"
  IN
    IF char = "\"" /\ ~st.inQuotes THEN [st EXCEPT !.inQuotes = TRUE, !.i = @ + 1]
    ELSE IF char = "\"" /\ st.inQuotes
      THEN IF nextChar = "\""
             THEN [st EXCEPT !.current = Append(@, "\""), !.i = @ + 2]
             ELSE [st EXCEPT !.inQuotes = FALSE, !.i = @ + 1]
    ELSE IF char = "," /\ ~st.inQuotes
      THEN [st EXCEPT !.row = Append(@, Trim(st.current)), !.current = <<>>, !.i = @ + 1]
    ELSE [st EXCEPT !.current = Append(@, char), !.i = @ + 1]

\* the passes of the while loop whose position lies in lo..hi-1, in order:
\* those of the first half of the positions, then those of the second
RECURSIVE ScanChars(_, _, _, _)
ScanChars(line, lo, hi, st) ==
  IF hi <= lo THEN st
  ELSE IF hi = lo + 1 THEN (IF st.i = lo THEN ScanStep(line, st) ELSE st)
  ELSE LET mid == (lo + hi) \div 2
           half == ScanChars(line, lo, mid, st)
       IN IF half.i >= hi THEN half ELSE ScanChars(line, mid, hi, half)

\* the while loop over one line and the push after it: the row of the line
ScanLine(line, i, current, inQuotes, row) ==
  LET st == ScanChars(line, i, Len(line),
                      [i |-> i, current |-> current, inQuotes |-> inQuotes, row |-> row])
  IN Append(st.row, Trim(st.current))

\* faulty variant of ParseLines: every line is kept, however few its fields
RECURSIVE ParseLinesKeepingAll(_)
ParseLinesKeepingAll(lines) ==
  IF lines = <<>> THEN <<>>
  ELSE <<ScanLine(Head(lines), 0, <<>>, FALSE, <<>>)>> \o ParseLinesKeepingAll(Tail(lines))

\* the for loop over the lines: rows of at least 6 cells are pushed
RECURSIVE ParseLines(_)
ParseLines(lines) ==
  IF lines = <<>> THEN <<>>
  ELSE LET row == ScanLine(Head(lines), 0, <<>>, FALSE, <<>>) IN
    (IF Len(row) >= 6 THEN <<row>> ELSE <<>>) \o ParseLines(Tail(lines))

parseCSV(text) == ParseLines(NonBlankLines(SplitLines(text)))

(* Texts given to the parser *)

FreeChars == {",", "\"", "a", " "}

\* five fields before the free part, or five after it
LineFrames ==
  {[pre |-> <<"a", ",", ",", ",", ",", ",">>, post |-> <<>>],
   [pre |-> <<>>, post |-> <<",", ",", ",", ",", ",", "f">>]}

\* lines of six and seven fields, of four, blank ones, one whose quoted
\* comma leaves five fields, one ending in a carriage return
SampleLines ==
  {<<"1", ",", ",", ",", ",", ",", "f">>,
   <<"2", ",", ",", ",", ",", ",", ",", "g">>,
   <<"3", ",", "b", ",", "c", ",", "d">>,
   <<>>,
   <<" ", "\t">>,
   <<"\"", "4", ",", "\"", ",", ",", ",", ",", "f">>,
   <<"5", ",", ",", ",", ",", ",", "\r">>}

RECURSIVE JoinLines(_)
JoinLines(lines) ==
  IF lines = <<>> THEN <<>>
  ELSE IF Len(lines) = 1 THEN lines[1]
  ELSE lines[1] \o <<"\n">> \o JoinLines(Tail(lines))

IsText(text) ==
  \/ \E n \in 0..MaxFree, frame \in LineFrames :
       \E free \in [1..n -> FreeChars] : text = frame.pre \o free \o frame.post
  \/ \E n \in 0..MaxLines :
       \E lines \in [1..n -> SampleLines] : text = JoinLines(lines)

InitParse ==
  /\ IsText(csvData)
  /\ sheet = <<>>
  /\ QUESTIONS = <<>>
  /\ CORRECT_ANSWERS = <<>>
  /\ res = NoResponse
  /\ NoHistory /\ NoFetch /\ NoPage

\* parseCSV(csvData)
ParseCSV ==
  /\ res' = [endpoint |-> "parseCSV", returned |-> parseCSV(csvData)]
  /\ UNCHANGED <<sheet, QUESTIONS, CORRECT_ANSWERS, tableVars, parseVars, fetchVars, loginVars>>

NextParse == ParseCSV

SpecParse == InitParse /\ [][NextParse]_vars

----------------------------------------------------------------------------
Parsed == res.endpoint = "parseCSV"

\* the elements of a set of integers in ascending order
RECURSIVE Ascending(_)
Ascending(S) ==
  IF S = {} THEN <<>>
  ELSE LET least == CHOOSE x \in S : \A y \in S : x <= y
       IN <<least>> \o Ascending(S \ {least})

\* after character i of the line: inside a quoted section or not, and
\* whether character i + 1 is the second quote of a doubled quote
QuoteState(line) ==
  LET st[i \in 0..Len(line)] ==
        IF i = 0 THEN [quoted |-> FALSE, doubled |-> FALSE]
        ELSE IF st[i - 1].doubled THEN [quoted |-> TRUE, doubled |-> FALSE]
        ELSE IF line[i] # "\"" THEN [quoted |-> st[i - 1].quoted, doubled |-> FALSE]
        ELSE IF ~st[i - 1].quoted THEN [quoted |-> TRUE, doubled |-> FALSE]
        ELSE IF i < Len(line) /\ line[i + 1] = "\"" THEN [quoted |-> TRUE, doubled |-> TRUE]
        ELSE [quoted |-> FALSE, doubled |-> FALSE]
  IN st

\* positions of the commas outside quoted sections
OutsideCommas(line) ==
  UNION {{i \in 1..Len(line) : line[i] = "," /\ ~st[i - 1].quoted} :
           st \in {QuoteState(line)}}

\* what the characters after position from and before position to add to a
\* field: the characters that are no quote, and one quote per doubled quote
FieldText(line, from, to) ==
  LET st == QuoteState(line)
      text[i \in from..(to - 1)] ==
        IF i = from THEN <<>>
        ELSE text[i - 1] \o
               (IF st[i - 1].doubled THEN <<>>
                ELSE IF line[i] = "\"" THEN (IF st[i].doubled THEN <<"\"">> ELSE <<>>)
                ELSE <<line[i]>>)
  IN text[to - 1]

\* row holds the trimmed fields of the line
IsRowOf(row, line) ==
  LET cuts == <<0>> \o Ascending(OutsideCommas(line)) \o <<Len(line) + 1>>
  IN /\ Len(row) = Len(cuts) - 1
     /\ \A k \in 1..Len(row) : IsTrimOf(row[k], FieldText(line, cuts[k], cuts[k + 1]))

OneLine == \A i \in 1..Len(csvData) : csvData[i] # "\n"

(* C15: a line is split at its commas outside quoted sections, a quote     *)
(* opening a section outside one and closing it inside one unless doubled, *)
(* a doubled quote adding one quote to the field; fields are trimmed; the  *)
(* line has 1 + (commas outside quoted sections) fields.                   *)
C15_FieldsSplitAtOutsideCommas ==
  (Parsed /\ OneLine /\ ~Blank(csvData)) =>
    IF 1 + Cardinality(OutsideCommas(csvData)) >= 6
      THEN /\ Len(res.returned) = 1
           /\ Len(res.returned[1]) = 1 + Cardinality(OutsideCommas(csvData))
           /\ IsRowOf(res.returned[1], csvData)
      ELSE res.returned = <<>>

\* a last field written as quote, comma, doubled quote: a comma and a quote
C15_Witness ==
  /\ Parsed
  /\ OneLine
  /\ Len(res.returned) = 1
  /\ Len(res.returned[1]) = 6
  /\ res.returned[1][6] = <<",", "\"">>

\* the lines of a text: the pieces between its line feeds
TextLines(text) ==
  LET cuts == <<0>> \o Ascending({i \in 1..Len(text) : text[i] = "\n"})
                \o <<Len(text) + 1>>
  IN [k \in 1..(Len(cuts) - 1) |-> SubSeq(text, cuts[k] + 1, cuts[k + 1] - 1)]

(* C16: every row parseCSV returns has at least 6 cells; blank lines and   *)
(* lines of fewer than 6 fields give no row, the other lines give the rows *)
(* in their order.                                                         *)
C16_RowsHaveSixCellsInLineOrder ==
  Parsed =>
    LET lines == TextLines(csvData)
        kept == Ascending({k \in 1..Len(lines) :
                             /\ ~Blank(lines[k])
                             /\ 1 + Cardinality(OutsideCommas(lines[k])) >= 6})
    IN /\ \A j \in 1..Len(res.returned) : Len(res.returned[j]) >= 6
       /\ Len(res.returned) = Len(kept)
       /\ \A j \in 1..Len(kept) : IsRowOf(res.returned[j], lines[kept[j]])

\* a text whose first line has four fields, with a blank line, and two
\* lines kept out of three or more
C16_Witness ==
  /\ Parsed
  /\ LET lines == TextLines(csvData) IN
       /\ Len(lines) >= 3
       /\ Cardinality(OutsideCommas(lines[1])) = 3
       /\ \E k \in 1..Len(lines) : Blank(lines[k])
  /\ Len(res.returned) = 1

----------------------------------------------------------------------------
(* Fetching the sheet: fetchDataFromCSV and its cache *)

CACHE_DURATION == 5 * 60 * 1000

csvUrls == <<"export?format=csv&gid=SHEET_GID", "export?format=csv&gid=0",
             "export?format=csv", "gviz/tq?tqx=out:csv&gid=SHEET_GID">>

MinLength == 100

DoctypeMarker == <<"<", "!", "D", "O", "C", "T", "Y", "P", "E", " ", "h", "t", "m", "l">>

\* String.prototype.includes
Includes(text, pat) ==
  \E k \in 0..(Len(text) - Len(pat)) : SubSeq(text, k + 1, k + Len(pat)) = pat

\* faulty variant of Acceptable: any non-empty body without the marker
AcceptableOfAnyLength(text) ==
  /\ text # <<>>
  /\ ~Includes(text, DoctypeMarker)

\* csvData && csvData.length > 100 && !csvData.includes('<!DOCTYPE html')
Acceptable(text) ==
  /\ text # <<>>
  /\ Len(text) > MinLength
  /\ ~Includes(text, DoctypeMarker)

\* the CSV export of a table whose cells hold no comma, quote or line break
RECURSIVE JoinWith(_, _)
JoinWith(parts, sep) ==
  IF parts = <<>> THEN <<>>
  ELSE IF Len(parts) = 1 THEN parts[1]
  ELSE parts[1] \o sep \o JoinWith(Tail(parts), sep)

ExportCsv(table) ==
  JoinWith([r \in 1..Len(table) |-> JoinWith(table[r], <<",">>)], <<"\n">>)

\* a body brought to n characters by line breaks at its end
Pad(text, n) == text \o [k \in 1..(n - Len(text)) |-> "\n"]

HtmlPage ==
  DoctypeMarker \o <<">", "\n", "<", "h", "t", "m", "l", ">", "S", "i", "g", "n", " ", "i", "n",
                     "<", "/", "h", "t", "m", "l", ">">>

LowerCasePage ==
  <<"<", "!", "d", "o", "c", "t", "y", "p", "e", " ", "h", "t", "m", "l", ">", "\n",
    "<", "p", ">", "a", ",", "b", "<", "/", "p", ">">>

MarkedTable ==
  [ExampleTable EXCEPT ![3][3] = DoctypeMarker]

NarrowLines == <<"a", ",", "b", ",", "c", "\n", "d", ",", "e", "\n", "f">>

\* the bodies a 2xx response can carry
Bodies ==
  << Pad(ExportCsv(ExampleTable), MinLength + 1),
     Pad(ExportCsv(PrefixTable), MinLength + 1),
     Pad(ExportCsv(ExampleTable), MinLength),
     ExportCsv(ExampleTable),
     <<>>,
     Pad(HtmlPage, MinLength + 1),
     Pad(ExportCsv(MarkedTable), MinLength + 1),
     Pad(LowerCasePage, MinLength + 1),
     Pad(ExportCsv(HeaderOnlyTable), MinLength + 1),
     Pad(ExportCsv(HeaderOnlyTable) \o <<"\n">> \o NarrowLines, MinLength + 1),
     Pad(NarrowLines, MinLength + 1),
     Pad(ExportCsv(NoQuestionTable), MinLength + 1) >>

\* what the catch of one URL attempt catches
Thrown == {"network error", "abort", "body read error", "parse error"}

\* the outcomes of one URL attempt
Outcomes ==
  {[kind |-> e] : e \in Thrown}
    \cup {[kind |-> "not ok"]}
    \cup {[kind |-> "body", body |-> k] : k \in 1..Len(Bodies)}

\* a timestamp, and a table, as the cache variables hold them
Stamp(ms) == [ms |-> ms]

Table(rows) == [rows |-> rows]

\* faulty variant of isCacheValid: the table still counts as valid at the
\* instant its lifetime ends
isCacheValidAtExpiry ==
  /\ CACHED_DATA # NULL
  /\ CACHE_TIMESTAMP # NULL
  /\ now - CACHE_TIMESTAMP.ms <= CACHE_DURATION

isCacheValid ==
  /\ CACHED_DATA # NULL
  /\ CACHE_TIMESTAMP # NULL
  /\ now - CACHE_TIMESTAMP.ms < CACHE_DURATION

Returning(i, last, rows) == [pc |-> "return", i |-> i, last |-> last, rows |-> rows]

Fetching(i, last) == [pc |-> "fetch", i |-> i, last |-> last]

InitFetch ==
  /\ NoFetch
  /\ sheet = <<>>
  /\ QUESTIONS = <<>>
  /\ CORRECT_ANSWERS = <<>>
  /\ res = NoResponse
  /\ NoHistory /\ NoText /\ NoPage

\* a data endpoint calls fetchDataFromCSV: the cache check, up to the import
StartRequest ==
  /\ req.pc = "idle"
  /\ req' = IF isCacheValid
              THEN Returning(0, [kind |-> "cache"], CACHED_DATA.rows)
              ELSE [pc |-> "import"]
  /\ UNCHANGED <<CACHED_DATA, CACHE_TIMESTAMP, now>>
  /\ cleared' = FALSE
  /\ UNCHANGED <<sheet, QUESTIONS, CORRECT_ANSWERS, res, tableVars, parseVars, loginVars>>

\* await import('node-fetch') and its catch
ImportFetch(available) ==
  /\ req.pc = "import"
  /\ req' = IF available
              THEN Fetching(1, [kind |-> "none"])
              ELSE Returning(0, [kind |-> "import failure"], FALLBACK_DATA)
  /\ UNCHANGED <<CACHED_DATA, CACHE_TIMESTAMP, now, cleared>>
  /\ UNCHANGED <<sheet, QUESTIONS, CORRECT_ANSWERS, res, tableVars, parseVars, loginVars>>

\* the table an attempt returns, NULL when it goes on to the next URL
ParsedBodies ==
  [k \in 1..Len(Bodies) |->
     IF Acceptable(Bodies[k])
       THEN LET rows == parseCSV(Bodies[k])
            IN IF Len(rows) > 1 THEN Table(rows) ELSE NULL
       ELSE NULL]

RowsOf(outcome) ==
  IF outcome.kind = "body" THEN ParsedBodies[outcome.body] ELSE NULL

\* one iteration of the loop over csvUrls, and what follows the last one
TryUrl(outcome) ==
  /\ req.pc = "fetch"
  /\ \E parsed \in {RowsOf(outcome)} :
       IF parsed # NULL
         THEN /\ CACHED_DATA' = parsed
              /\ CACHE_TIMESTAMP' = Stamp(now)
              /\ req' = Returning(req.i, outcome, parsed.rows)
         ELSE IF req.i < Len(csvUrls)
           THEN /\ req' = Fetching(req.i + 1, outcome)
                /\ UNCHANGED <<CACHED_DATA, CACHE_TIMESTAMP>>
           ELSE /\ CACHED_DATA' = Table(FALLBACK_DATA)
                /\ CACHE_TIMESTAMP' = Stamp(now)
                /\ req' = Returning(req.i, outcome, FALLBACK_DATA)
  /\ UNCHANGED <<now, cleared>>
  /\ UNCHANGED <<sheet, QUESTIONS, CORRECT_ANSWERS, res, tableVars, parseVars, loginVars>>

\* the rest of /api/test-responses once fetchDataFromCSV has returned
Respond(t) ==
  /\ req.pc = "return"
  /\ \E p \in {processSheetData(req.rows, QUESTIONS, CORRECT_ANSWERS, t)} :
       /\ sheet' = req.rows
       /\ QUESTIONS' = p.QUESTIONS
       /\ CORRECT_ANSWERS' = p.CORRECT_ANSWERS
       /\ res' = [endpoint |-> "test-responses",
                  status |-> 200,
                  success |-> TRUE,
                  data |-> p.testResponses,
                  totalCount |-> Len(p.testResponses),
                  metadata |-> [totalRows |-> Len(req.rows),
                                processedRows |-> Len(p.testResponses),
                                questionsFromHeader |-> Len(p.QUESTIONS),
                                answersFromFirstEmployee |-> Len(p.CORRECT_ANSWERS)]]
  /\ req' = NoRequest
  /\ UNCHANGED <<CACHED_DATA, CACHE_TIMESTAMP, now, cleared>>
  /\ UNCHANGED <<tableVars, parseVars, loginVars>>

\* faulty variant of ClearCache: the table is dropped and its timestamp kept
ClearCacheKeepingTimestamp ==
  /\ CACHED_DATA' = NULL
  /\ QUESTIONS' = <<>>
  /\ CORRECT_ANSWERS' = <<>>
  /\ res' = [endpoint |-> "clear-cache", status |-> 200, success |-> TRUE]
  /\ cleared' = TRUE
  /\ UNCHANGED <<CACHE_TIMESTAMP, now, req>>
  /\ UNCHANGED <<sheet, tableVars, parseVars, loginVars>>

\* POST /api/clear-cache
ClearCache ==
  /\ CACHED_DATA' = NULL
  /\ CACHE_TIMESTAMP' = NULL
  /\ QUESTIONS' = <<>>
  /\ CORRECT_ANSWERS' = <<>>
  /\ res' = [endpoint |-> "clear-cache", status |-> 200, success |-> TRUE]
  /\ cleared' = TRUE
  /\ UNCHANGED <<now, req>>
  /\ UNCHANGED <<sheet, tableVars, parseVars, loginVars>>

\* Date.now() advances
Tick ==
  /\ now < 1 + MaxTicks * (CACHE_DURATION \div 2)
  /\ now' = now + CACHE_DURATION \div 2
  /\ UNCHANGED <<CACHED_DATA, CACHE_TIMESTAMP, req, cleared>>
  /\ UNCHANGED <<sheet, QUESTIONS, CORRECT_ANSWERS, res, tableVars, parseVars, loginVars>>

NextFetch ==
  \/ StartRequest
  \/ \E available \in BOOLEAN : ImportFetch(available)
  \/ \E outcome \in Outcomes : TryUrl(outcome)
  \/ \E t \in Times : Respond(t)
  \/ ClearCache
  \/ Tick

SpecFetch == InitFetch /\ [][NextFetch]_vars

----------------------------------------------------------------------------
(* C14: a 2xx body of at most 100 characters, or holding '<!DOCTYPE html', *)
(* or parsing to at most one retained row, is never returned nor cached:   *)
(* the attempt goes on to the next URL with the cache as it was, and after *)
(* the last URL the fallback table is returned and cached.                 *)

Malformed(text) ==
  \/ Len(text) <= 100
  \/ Includes(text, DoctypeMarker)
  \/ Len(parseCSV(text)) <= 1

MalformedBodies == {k \in 1..Len(Bodies) : Malformed(Bodies[k])}

C14_MalformedBodyIsAFailedAttempt ==
  [][( /\ req.pc = "fetch"
       /\ req' # req
       /\ req'.last.kind = "body"
       /\ req'.last.body \in MalformedBodies ) =>
       IF req.i < Len(csvUrls)
         THEN /\ req' = Fetching(req.i + 1, req'.last)
              /\ CACHED_DATA' = CACHED_DATA
              /\ CACHE_TIMESTAMP' = CACHE_TIMESTAMP
         ELSE /\ req' = Returning(req.i, req'.last, FALLBACK_DATA)
              /\ CACHED_DATA' = Table(FALLBACK_DATA)
    ]_vars

\* a page with the marker came from the last URL and the fallback table is
\* returned and cached
C14_Witness ==
  /\ req.pc = "return"
  /\ req.i = Len(csvUrls)
  /\ req.last.kind = "body"
  /\ req.last.body \in MalformedBodies
  /\ Includes(Bodies[req.last.body], DoctypeMarker)
  /\ req.rows = FALLBACK_DATA
  /\ CACHED_DATA = Table(FALLBACK_DATA)

\* C24: the cache is time-bounded: with a table stored at time t, a call of
\* fetchDataFromCSV started while now - t < CACHE_DURATION returns that
\* table at once, without an import or a URL attempt, and a call started at
\* or after t + CACHE_DURATION does not return it but goes on to the
\* attempts
C24_CacheIsTimeBounded ==
  [][(/\ req.pc = "idle"
      /\ req'.pc # "idle"
      /\ CACHED_DATA # NULL
      /\ CACHE_TIMESTAMP # NULL)
       => IF now - CACHE_TIMESTAMP.ms < CACHE_DURATION
            THEN /\ req'.pc = "return"
                 /\ req'.last = [kind |-> "cache"]
                 /\ req'.rows = CACHED_DATA.rows
                 /\ UNCHANGED <<CACHED_DATA, CACHE_TIMESTAMP>>
            ELSE req'.pc = "import"]_vars

\* a call started at the instant t + CACHE_DURATION, on its way to the
\* attempts with the expired table still stored
C24_Witness ==
  /\ req.pc = "import"
  /\ CACHED_DATA # NULL
  /\ CACHE_TIMESTAMP # NULL
  /\ now - CACHE_TIMESTAMP.ms = CACHE_DURATION

\* a call started before the table has expired, after the clock has moved
C24_ServedFromCache ==
  /\ req.pc = "return"
  /\ req.last = [kind |-> "cache"]
  /\ CACHE_TIMESTAMP # NULL
  /\ now > CACHE_TIMESTAMP.ms

----------------------------------------------------------------------------
(* The earlier revision of the backend: fetchDataFromCSV without cache and *)
(* without fallback table                                                  *)

Threw(i, last) == [pc |-> "threw", i |-> i, last |-> last]

LegacyStartRequest ==
  /\ req.pc = "idle"
  /\ req' = [pc |-> "import"]
  /\ UNCHANGED <<CACHED_DATA, CACHE_TIMESTAMP, now, cleared>>
  /\ UNCHANGED <<sheet, QUESTIONS, CORRECT_ANSWERS, res, tableVars, parseVars, loginVars>>

\* await import('node-fetch'), outside every try
LegacyImportFetch(available) ==
  /\ req.pc = "import"
  /\ req' = IF available
              THEN Fetching(1, [kind |-> "none"])
              ELSE Threw(0, [kind |-> "import failure"])
  /\ UNCHANGED <<CACHED_DATA, CACHE_TIMESTAMP, now, cleared>>
  /\ UNCHANGED <<sheet, QUESTIONS, CORRECT_ANSWERS, res, tableVars, parseVars, loginVars>>

\* one iteration of the loop over csvUrls, and the throw after the last one
LegacyTryUrl(outcome) ==
  /\ req.pc = "fetch"
  /\ \E parsed \in {RowsOf(outcome)} :
       req' = IF parsed # NULL THEN Returning(req.i, outcome, parsed.rows)
              ELSE IF req.i < Len(csvUrls) THEN Fetching(req.i + 1, outcome)
              ELSE Threw(req.i, outcome)
  /\ UNCHANGED <<CACHED_DATA, CACHE_TIMESTAMP, now, cleared>>
  /\ UNCHANGED <<sheet, QUESTIONS, CORRECT_ANSWERS, res, tableVars, parseVars, loginVars>>

\* the rest of /api/test-responses: the response, or the catch and its 500
LegacyRespond(t) ==
  /\ req.pc \in {"return", "threw"}
  /\ IF req.pc = "return"
       THEN \E p \in {processSheetData(req.rows, QUESTIONS, CORRECT_ANSWERS, t)} :
              /\ sheet' = req.rows
              /\ QUESTIONS' = p.QUESTIONS
              /\ CORRECT_ANSWERS' = p.CORRECT_ANSWERS
              /\ res' = [endpoint |-> "test-responses",
                         status |-> 200,
                         success |-> TRUE,
                         data |-> p.testResponses,
                         totalCount |-> Len(p.testResponses),
                         metadata |-> [totalRows |-> Len(req.rows),
                                       processedRows |-> Len(p.testResponses),
                                       questionsFromHeader |-> Len(p.QUESTIONS),
                                       answersFromFirstEmployee |-> Len(p.CORRECT_ANSWERS)]]
       ELSE /\ res' = [endpoint |-> "test-responses",
                       status |-> 500,
                       success |-> FALSE,
                       error |-> "Failed to fetch data from specific sheet tab"]
            /\ UNCHANGED <<sheet, QUESTIONS, CORRECT_ANSWERS>>
  /\ req' = NoRequest
  /\ UNCHANGED <<CACHED_DATA, CACHE_TIMESTAMP, now, cleared>>
  /\ UNCHANGED <<tableVars, parseVars, loginVars>>

NextLegacy ==
  \/ LegacyStartRequest
  \/ \E available \in BOOLEAN : LegacyImportFetch(available)
  \/ \E outcome \in Outcomes : LegacyTryUrl(outcome)
  \/ \E t \in Times : LegacyRespond(t)

SpecLegacy == InitFetch /\ [][NextLegacy]_vars

----------------------------------------------------------------------------
(* C13: fetchDataFromCSV never fails: whatever the import and the URL      *)
(* attempts give, it returns, after at most one attempt per URL, the table *)
(* of the attempt that succeeded or FALLBACK_DATA, and no data endpoint    *)
(* answers 500 because the sheet could not be fetched.                     *)
C13_FetchNeverFails ==
  /\ req.pc # "threw"
  /\ ~(res.endpoint = "test-responses" /\ res.status = 500)
  /\ req.pc \in {"fetch", "return"} => req.i <= Len(csvUrls)
  /\ req.pc = "return" =>
       \/ req.rows = FALLBACK_DATA
       \/ req.last.kind = "cache"
       \/ /\ req.last.kind = "body"
          /\ req.rows = parseCSV(Bodies[req.last.body])
          /\ Len(req.rows) > 1

----------------------------------------------------------------------------
(* Overlapping requests: the handlers of the data endpoints, suspended at  *)
(* the awaits of fetchDataFromCSV, and the synchronous run of each handler *)
(* once its table is there                                                 *)

Requests == {"first", "second"}

Grading == {"dashboard-stats", "test-responses", "response"}

Endpoints == Grading \cup {"questions", "raw-data"}

\* values of :employeeId
EmployeeIds == {<<"2">>, <<"9">>}

\* the requests made: the endpoint and, where the route has one, its parameter
Calls ==
  {[endpoint |-> e, employeeId |-> <<>>] : e \in Endpoints \ {"response"}}
    \cup {[endpoint |-> "response", employeeId |-> id] : id \in EmployeeIds}

\* a request that has been answered
Answered == [pc |-> "done"]

\* what a URL attempt gives while requests overlap
OverlapOutcomes ==
  {[kind |-> "network error"],
   [kind |-> "body", body |-> 1],
   [kind |-> "body", body |-> Len(Bodies)]}

\* faulty variant of Running: the handler yields between the initialization
\* and the loop over the rows, as if processSheetData awaited there
RunningOutsideTheLoop == \E r \in Requests : req[r].pc \in {"init", "send"}

\* a handler is in its synchronous part: no other callback runs before it
\* has sent its response
Running == \E r \in Requests : req[r].pc \in {"init", "map", "send"}

InitOverlap ==
  /\ CACHED_DATA = NULL
  /\ CACHE_TIMESTAMP = NULL
  /\ now = 1
  /\ req = [r \in Requests |-> NoRequest]
  /\ cleared = FALSE
  /\ sheet = <<>>
  /\ QUESTIONS = <<>>
  /\ CORRECT_ANSWERS = <<>>
  /\ res = NoResponse
  /\ NoHistory /\ NoText /\ NoPage

\* the handler after its await of fetchDataFromCSV, with the rows returned
Resumed(call, rows) ==
  [pc |-> IF call.endpoint = "raw-data" THEN "send" ELSE "init",
   endpoint |-> call.endpoint,
   employeeId |-> call.employeeId,
   fetched |-> TRUE,
   rows |-> rows,
   testResponses |-> <<>>]

Awaiting(call, pc, i) ==
  [pc |-> pc, endpoint |-> call.endpoint, employeeId |-> call.employeeId, i |-> i]

\* a request arrives: the handler up to its first await, or, when the cache
\* is valid, on into its synchronous part
Arrive(r, call) ==
  /\ ~Running
  /\ req[r].pc = "idle"
  /\ IF call.endpoint = "questions" /\ ~(Len(QUESTIONS) = 0 \/ Len(CORRECT_ANSWERS) = 0)
       THEN /\ req' = [req EXCEPT ![r] =
                         [pc |-> "send", endpoint |-> call.endpoint,
                          employeeId |-> call.employeeId,
                          fetched |-> FALSE, rows |-> <<>>, testResponses |-> <<>>]]
            /\ UNCHANGED cleared
       ELSE /\ req' = [req EXCEPT ![r] =
                         IF isCacheValid THEN Resumed(call, CACHED_DATA.rows)
                         ELSE Awaiting(call, "import", 0)]
            /\ cleared' = FALSE
  /\ UNCHANGED <<CACHED_DATA, CACHE_TIMESTAMP, now>>
  /\ UNCHANGED <<sheet, QUESTIONS, CORRECT_ANSWERS, res, tableVars, parseVars, loginVars>>

\* await import('node-fetch') resolves or rejects
ImportOf(r, available) ==
  /\ ~Running
  /\ req[r].pc = "import"
  /\ req' = [req EXCEPT ![r] =
               IF available THEN Awaiting(req[r], "fetch", 1)
               ELSE Resumed(req[r], FALLBACK_DATA)]
  /\ UNCHANGED <<CACHED_DATA, CACHE_TIMESTAMP, now, cleared>>
  /\ UNCHANGED <<sheet, QUESTIONS, CORRECT_ANSWERS, res, tableVars, parseVars, loginVars>>

\* the awaits of one URL attempt resolve or reject
TryUrlOf(r, outcome) ==
  /\ ~Running
  /\ req[r].pc = "fetch"
  /\ \E parsed \in {RowsOf(outcome)} :
       IF parsed # NULL
         THEN /\ CACHED_DATA' = parsed
              /\ CACHE_TIMESTAMP' = Stamp(now)
              /\ req' = [req EXCEPT ![r] = Resumed(req[r], parsed.rows)]
         ELSE IF req[r].i < Len(csvUrls)
           THEN /\ req' = [req EXCEPT ![r] = Awaiting(req[r], "fetch", req[r].i + 1)]
                /\ UNCHANGED <<CACHED_DATA, CACHE_TIMESTAMP>>
           ELSE /\ CACHED_DATA' = Table(FALLBACK_DATA)
                /\ CACHE_TIMESTAMP' = Stamp(now)
                /\ req' = [req EXCEPT ![r] = Resumed(req[r], FALLBACK_DATA)]
  /\ UNCHANGED <<now, cleared>>
  /\ UNCHANGED <<sheet, QUESTIONS, CORRECT_ANSWERS, res, tableVars, parseVars, loginVars>>

\* faulty variant of InitializeOf: the rows are graded although the
\* initialization has failed
InitializeAndGradeAnyway(r) ==
  /\ req[r].pc = "init"
  /\ \E init \in {initializeCorrectAnswers(req[r].rows, QUESTIONS, CORRECT_ANSWERS)} :
       /\ QUESTIONS' = init.QUESTIONS
       /\ CORRECT_ANSWERS' = init.CORRECT_ANSWERS
       /\ req' = [req EXCEPT ![r].pc =
                    IF req[r].endpoint \in Grading /\ Len(req[r].rows) > 1
                      THEN "map" ELSE "send"]
  /\ UNCHANGED <<CACHED_DATA, CACHE_TIMESTAMP, now, cleared>>
  /\ UNCHANGED <<sheet, res, tableVars, parseVars, loginVars>>

\* initializeCorrectAnswers(rows), called by processSheetData or by the
\* handler of /api/questions
InitializeOf(r) ==
  /\ req[r].pc = "init"
  /\ \E init \in {initializeCorrectAnswers(req[r].rows, QUESTIONS, CORRECT_ANSWERS)} :
       /\ QUESTIONS' = init.QUESTIONS
       /\ CORRECT_ANSWERS' = init.CORRECT_ANSWERS
       /\ req' = [req EXCEPT ![r].pc =
                    IF req[r].endpoint \in Grading /\ Len(req[r].rows) > 1 /\ init.ok
                      THEN "map" ELSE "send"]
  /\ UNCHANGED <<CACHED_DATA, CACHE_TIMESTAMP, now, cleared>>
  /\ UNCHANGED <<sheet, res, tableVars, parseVars, loginVars>>

\* the loop of processSheetData over the data rows, all its passes
MapRowsOf(r, t) ==
  /\ req[r].pc = "map"
  /\ req' = [req EXCEPT ![r].pc = "send",
                        ![r].testResponses =
                           MapDataRows(Tail(req[r].rows), 0, QUESTIONS, CORRECT_ANSWERS, t)]
  /\ UNCHANGED <<CACHED_DATA, CACHE_TIMESTAMP, now, cleared>>
  /\ UNCHANGED <<sheet, QUESTIONS, CORRECT_ANSWERS, res, tableVars, parseVars, loginVars>>

\* Math.round((score / QUESTIONS.length) * 100)
ScorePercentage(score, n) == MathRound(DoubleTimes(DoubleDivide(score, n), 100))

RECURSIVE Find(_, _)
Find(testResponses, employeeId) ==
  IF testResponses = <<>> THEN NULL
  ELSE IF Head(testResponses).employeeId = employeeId THEN Head(testResponses)
  ELSE Find(Tail(testResponses), employeeId)

\* the body res.json is given by each endpoint
ResponseOf(call, rows, testResponses, q, ca) ==
  IF call.endpoint = "test-responses"
    THEN [endpoint |-> "test-responses", status |-> 200, success |-> TRUE,
          data |-> testResponses,
          totalCount |-> Len(testResponses),
          metadata |-> [totalRows |-> Len(rows),
                        processedRows |-> Len(testResponses),
                        questionsFromHeader |-> Len(q),
                        answersFromFirstEmployee |-> Len(ca)]]
  ELSE IF call.endpoint = "dashboard-stats"
    THEN [endpoint |-> "dashboard-stats", status |-> 200, success |-> TRUE,
          data |-> DashboardStats(testResponses, q, ca)]
  ELSE IF call.endpoint = "response"
    THEN LET targetResponse == Find(testResponses, call.employeeId) IN
         IF targetResponse = NULL
           THEN [endpoint |-> "response", status |-> 404, success |-> FALSE]
           ELSE [endpoint |-> "response", status |-> 200, success |-> TRUE,
                 data |-> targetResponse,
                 referenceEmployee |-> testResponses[1],
                 comparisonAnalysis |->
                   [k \in 1..Len(targetResponse.answers) |->
                      [questionNumber |-> k,
                       question |-> IF k <= Len(q) THEN q[k] ELSE <<"undefined">>,
                       userAnswer |-> targetResponse.answers[k].selectedAnswer,
                       referenceAnswer |-> IF k <= Len(ca) THEN ca[k] ELSE <<"undefined">>,
                       isCorrect |-> targetResponse.answers[k].isCorrect]],
                 summary |-> [totalQuestions |-> Len(q),
                              correctAnswers |-> CountCorrect(targetResponse.answers),
                              scorePercentage |-> ScorePercentage(targetResponse.score, Len(q))]]
  ELSE IF call.endpoint = "questions"
    THEN [endpoint |-> "questions", status |-> 200, success |-> TRUE,
          fetched |-> call.fetched,
          questions |-> q,
          correctAnswers |-> ca,
          totalQuestions |-> Len(q)]
  ELSE [endpoint |-> "raw-data", status |-> 200, success |-> TRUE,
        fetched |-> call.fetched,
        totalRows |-> Len(rows),
        extractedQuestions |-> q,
        extractedCorrectAnswers |-> ca,
        allRows |-> rows]

\* res.json: the handler ends
SendOf(r) ==
  /\ req[r].pc = "send"
  /\ res' = ResponseOf(req[r], req[r].rows, req[r].testResponses, QUESTIONS, CORRECT_ANSWERS)
  /\ sheet' = IF req[r].fetched THEN req[r].rows ELSE sheet
  /\ req' = [req EXCEPT ![r] = Answered]
  /\ UNCHANGED <<CACHED_DATA, CACHE_TIMESTAMP, now, cleared>>
  /\ UNCHANGED <<QUESTIONS, CORRECT_ANSWERS, tableVars, parseVars, loginVars>>

NextOverlap ==
  \/ \E r \in Requests, call \in Calls : Arrive(r, call)
  \/ \E r \in Requests, available \in BOOLEAN : ImportOf(r, available)
  \/ \E r \in Requests, outcome \in OverlapOutcomes : TryUrlOf(r, outcome)
  \/ \E r \in Requests : InitializeOf(r)
  \/ \E r \in Requests, t \in Times : MapRowsOf(r, t)
  \/ \E r \in Requests : SendOf(r)
  \/ ~Running /\ ClearCache
  \/ ~Running /\ Tick

SpecOverlap == InitOverlap /\ [][NextOverlap]_vars

----------------------------------------------------------------------------
(* Claims about overlapping requests *)

\* the questions and the answer key initializeCorrectAnswers derives from a
\* table
DerivedFrom(rows) == initializeCorrectAnswers(rows, <<>>, <<>>)

ReportedQuestions(body) ==
  IF body.endpoint = "questions" THEN body.questions ELSE body.extractedQuestions

ReportedAnswers(body) ==
  IF body.endpoint = "questions" THEN body.correctAnswers
  ELSE body.extractedCorrectAnswers

\* C21: a response of /api/questions or /api/debug/raw-data whose request
\* obtained a table from fetchDataFromCSV reports the questions and the
\* answer key derived from that table, never those of an earlier table
\* (stated for responses that report a question set, that is, where some
\* table had been initialized)
C21_ReportsTheTableObtained ==
  (/\ res.endpoint \in {"questions", "raw-data"}
   /\ res.fetched
   /\ ReportedQuestions(res) # <<>>)
    => /\ ReportedQuestions(res) = DerivedFrom(sheet).QUESTIONS
       /\ ReportedAnswers(res) = DerivedFrom(sheet).CORRECT_ANSWERS

\* the same for /api/questions alone, which initializes from the rows it
\* has awaited
QuestionsReportsTheTableObtained ==
  (res.endpoint = "questions" /\ res.fetched)
    => /\ res.questions = DerivedFrom(sheet).QUESTIONS
       /\ res.correctAnswers = DerivedFrom(sheet).CORRECT_ANSWERS

\* C22: in every request that grades rows, initializeCorrectAnswers has
\* completed successfully on the same table before the first
\* mapRowToTestResponse call, and QUESTIONS and CORRECT_ANSWERS are those of
\* that initialization when the rows of the table are graded
C22_InitializedBeforeGrading ==
  \A r \in Requests :
    req[r].pc = "map"
      => /\ req[r].endpoint \in Grading
         /\ DerivedFrom(req[r].rows).ok
         /\ QUESTIONS = DerivedFrom(req[r].rows).QUESTIONS
         /\ CORRECT_ANSWERS = DerivedFrom(req[r].rows).CORRECT_ANSWERS

\* a request about to grade its rows while the other request is suspended
\* inside fetchDataFromCSV
C22_Witness ==
  \E r \in Requests, o \in Requests :
    /\ req[r].pc = "map"
    /\ req[o].pc \in {"import", "fetch"}
    /\ QUESTIONS # <<>>

\* C23: the cache is a snapshot swapped as a unit: CACHED_DATA and
\* CACHE_TIMESTAMP are both null or both set in every state a request can
\* observe, and a step that changes the table or the timestamp either stores
\* a table together with the time of that step or removes both
C23_SnapshotSwappedAsAUnit ==
  [][/\ (CACHED_DATA = NULL) <=> (CACHE_TIMESTAMP = NULL)
     /\ (CACHED_DATA' = NULL) <=> (CACHE_TIMESTAMP' = NULL)
     /\ <<CACHED_DATA, CACHE_TIMESTAMP>>' # <<CACHED_DATA, CACHE_TIMESTAMP>>
          => \/ CACHED_DATA' = NULL /\ CACHE_TIMESTAMP' = NULL
             \/ /\ CACHED_DATA' # NULL
                /\ CACHE_TIMESTAMP' = Stamp(now')
                /\ now' = now]_vars

\* a snapshot stored after the clock has advanced, observed by a request
\* that is still suspended inside fetchDataFromCSV
C23_Witness ==
  /\ CACHED_DATA # NULL
  /\ CACHE_TIMESTAMP # NULL
  /\ CACHE_TIMESTAMP.ms > 1
  /\ \E r \in Requests : req[r].pc = "fetch"

\* the response the endpoint gives when the table of the last response is
\* processed on its own, from empty QUESTIONS and CORRECT_ANSWERS
AsGradedAlone(endpoint, employeeId, t) ==
  LET alone == processSheetData(sheet, <<>>, <<>>, t)
  IN ResponseOf([endpoint |-> endpoint, employeeId |-> employeeId], sheet,
                alone.testResponses, alone.QUESTIONS, alone.CORRECT_ANSWERS)

\* C25: however the requests interleave at the awaits of fetchDataFromCSV,
\* POST /api/clear-cache included, each response of dashboard-stats,
\* test-responses and response/:employeeId holds the records graded against
\* the answer key of the table this request obtained, and the questions and
\* answers it reports are those of that table
C25_GradedAgainstOwnTable ==
  res.endpoint \in Grading
    => \E employeeId \in EmployeeIds \cup {<<>>}, t \in Times :
         res = AsGradedAlone(res.endpoint, employeeId, t)

\* a response with graded records, sent after a clear-cache while the other
\* request is still suspended inside fetchDataFromCSV
C25_Witness ==
  /\ res.endpoint \in {"dashboard-stats", "response"}
  /\ res.status = 200
  /\ res.data # EmptyStats
  /\ cleared
  /\ \E o \in Requests : req[o].pc = "fetch"

\* C26: a table obtained from the network and stored in the cache is never
\* replaced by FALLBACK_DATA while it is still within its lifetime
C26_GoodSnapshotNotReplacedByFallback ==
  [][(/\ CACHED_DATA # NULL
      /\ CACHED_DATA # Table(FALLBACK_DATA)
      /\ CACHE_TIMESTAMP # NULL
      /\ now - CACHE_TIMESTAMP.ms < CACHE_DURATION)
       => CACHED_DATA' # Table(FALLBACK_DATA)]_vars

\* a step of POST /api/clear-cache leaves the cache null and the question
\* set and key empty
ClearCacheEmptiesTheState ==
  [][(cleared' /\ req' = req /\ now' = now)
       => /\ CACHED_DATA' = NULL
          /\ CACHE_TIMESTAMP' = NULL
          /\ QUESTIONS' = <<>>
          /\ CORRECT_ANSWERS' = <<>>]_vars

\* C27: after POST /api/clear-cache the cache is null and QUESTIONS and
\* CORRECT_ANSWERS are empty, and the next call of fetchDataFromCSV goes on
\* to the network attempts instead of returning a table from the cache,
\* also when a fetch was in flight at the time of the clear
C27_NextCallAfterClearFetches ==
  [][/\ (cleared' /\ req' = req /\ now' = now)
          => /\ CACHED_DATA' = NULL
             /\ CACHE_TIMESTAMP' = NULL
             /\ QUESTIONS' = <<>>
             /\ CORRECT_ANSWERS' = <<>>
     /\ (cleared /\ ~cleared')
          => \E r \in Requests : req[r].pc = "idle" /\ req'[r].pc = "import"]_vars

----------------------------------------------------------------------------
(* Login gate of the front end *)

validUsername == "Chandan Bera"

validEmpId == "12340987"

Paths == {"", "login", "dashboard"}

\* what a user can type into the two inputs
Usernames == {"", validUsername, "chandan bera", "Chandan Bera ", "Chandan"}

EmpIds == {"", validEmpId, "1234", "012340987"}

InitLogin ==
  /\ NoPage
  /\ sheet = <<>>
  /\ QUESTIONS = <<>>
  /\ CORRECT_ANSWERS = <<>>
  /\ res = NoResponse
  /\ NoHistory /\ NoText /\ NoFetch

\* the router activates the route of a URL; none of the routes has a guard.
\* The component of the route is constructed anew
OpenUrl(path) ==
  /\ route' = path
  /\ login' = NewLogin
  /\ UNCHANGED <<timers, dashboard>>
  /\ UNCHANGED <<sheet, QUESTIONS, CORRECT_ANSWERS, res, tableVars, parseVars, fetchVars>>

\* LandingPage.navigateToLogin
NavigateToLogin ==
  /\ route = ""
  /\ route' = "login"
  /\ login' = NewLogin
  /\ UNCHANGED <<timers, dashboard>>
  /\ UNCHANGED <<sheet, QUESTIONS, CORRECT_ANSWERS, res, tableVars, parseVars, fetchVars>>

\* the inputs bound to username and empId
TypeCredentials(u, e) ==
  /\ route = "login"
  /\ login' = [login EXCEPT !.username = u, !.empId = e]
  /\ UNCHANGED <<route, timers, dashboard>>
  /\ UNCHANGED <<sheet, QUESTIONS, CORRECT_ANSWERS, res, tableVars, parseVars, fetchVars>>

\* Login.onLogin
OnLogin ==
  /\ route = "login"
  /\ timers < MaxTimers
  /\ IF login.username = validUsername /\ login.empId = validEmpId
       THEN /\ login' = [login EXCEPT !.errorMessage = "",
                                      !.successMessage = "Login successful! Redirecting..."]
            /\ timers' = timers + 1
       ELSE /\ login' = [login EXCEPT !.successMessage = "",
                                      !.errorMessage = "Invalid username or employee ID. Please check your credentials."]
            /\ UNCHANGED timers
  /\ UNCHANGED <<route, dashboard>>
  /\ UNCHANGED <<sheet, QUESTIONS, CORRECT_ANSWERS, res, tableVars, parseVars, fetchVars>>

\* the callback onLogin scheduled: this.router.navigate(['/dashboard'])
TimerFires ==
  /\ timers > 0
  /\ timers' = timers - 1
  /\ route' = "dashboard"
  /\ login' = NewLogin
  /\ UNCHANGED dashboard
  /\ UNCHANGED <<sheet, QUESTIONS, CORRECT_ANSWERS, res, tableVars, parseVars, fetchVars>>

NextLogin ==
  \/ \E path \in Paths : OpenUrl(path)
  \/ NavigateToLogin
  \/ \E u \in Usernames, e \in EmpIds : TypeCredentials(u, e)
  \/ OnLogin
  \/ TimerFires

SpecLogin == InitLogin /\ [][NextLogin]_vars

----------------------------------------------------------------------------
(* C20: a navigation to /dashboard is scheduled by onLogin exactly when    *)
(* username and empId equal the configured credentials; a failed attempt   *)
(* sets errorMessage, clears successMessage and schedules nothing; and the *)
(* dashboard is shown by no step other than the navigation of a successful *)
(* login.                                                                  *)
C20_DashboardOnlyAfterLogin ==
  [][/\ timers' > timers <=>
          /\ route = "login" /\ route' = "login"
          /\ login.username = validUsername /\ login.empId = validEmpId
          /\ login'.successMessage # "" /\ login'.errorMessage = ""
          /\ login'.username = login.username /\ login'.empId = login.empId
     /\ ( /\ route = "login" /\ route' = "login"
          /\ login'.username = login.username /\ login'.empId = login.empId
          /\ login' # login
          /\ login'.errorMessage # "" \/ login'.successMessage # ""
          /\ ~(login.username = validUsername /\ login.empId = validEmpId) ) =>
          /\ login'.errorMessage # ""
          /\ login'.successMessage = ""
          /\ timers' = timers
     /\ (route' = "dashboard" /\ route # "dashboard") => timers' = timers - 1
    ]_vars

----------------------------------------------------------------------------
(* Dashboard component of the front end: its loads with their retries, its *)
(* statistics, its filters and its pages. The charts and lastUpdateTime    *)
(* are display only and are left out.                                      *)

maxRetries == 3

itemsPerPage == 10

\* the questions and answers of loadFallbackQuestions
FallbackQuestions ==
  <<<<"W", "h", "i", "c", "h", " ", "l", "a", "w", " ", "s", "t", "a", "t", "e", "s", " ", "t", "h", "a", "t", " ", "s", "t", "r", "e", "s", "s", " ", "i", "s", " ", "p", "r", "o", "p", "o", "r", "t", "i", "o", "n", "a", "l", " ", "t", "o", " ", "s", "t", "r", "a", "i", "n", " ", "w", "i", "t", "h", "i", "n", " ", "t", "h", "e", " ", "e", "l", "a", "s", "t", "i", "c", " ", "l", "i", "m", "i", "t", "?">>,
    <<"W", "h", "i", "c", "h", " ", "t", "y", "p", "e", " ", "o", "f", " ", "g", "e", "a", "r", " ", "i", "s", " ", "u", "s", "e", "d", " ", "t", "o", " ", "t", "r", "a", "n", "s", "m", "i", "t", " ", "m", "o", "t", "i", "o", "n", " ", "b", "e", "t", "w", "e", "e", "n", " ", "i", "n", "t", "e", "r", "s", "e", "c", "t", "i", "n", "g", " ", "s", "h", "a", "f", "t", "s", "?">>,
    <<"W", "h", "i", "c", "h", " ", "c", "y", "c", "l", "e", " ", "i", "s", " ", "u", "s", "e", "d", " ", "i", "n", " ", "I", "C", " ", "e", "n", "g", "i", "n", "e", "s", "?">>,
    <<"U", "n", "i", "t", " ", "o", "f", " ", "P", "o", "w", "e", "r", " ", "i", "s", "?">>,
    <<"T", "h", "e", " ", "h", "a", "r", "d", "n", "e", "s", "s", " ", "t", "e", "s", "t", " ", "p", "e", "r", "f", "o", "r", "m", "e", "d", " ", "u", "s", "i", "n", "g", " ", "d", "i", "a", "m", "o", "n", "d", " ", "p", "y", "r", "a", "m", "i", "d", " ", "i", "s", " ", "c", "a", "l", "l", "e", "d", "?">>,
    <<"W", "h", "i", "c", "h", " ", "o", "f", " ", "t", "h", "e", " ", "f", "o", "l", "l", "o", "w", "i", "n", "g", " ", "i", "s", " ", "N", "O", "T", " ", "a", " ", "w", "e", "l", "d", "i", "n", "g", " ", "p", "r", "o", "c", "e", "s", "s", "?">>,
    <<"I", "n", " ", "t", "h", "e", "r", "m", "o", "d", "y", "n", "a", "m", "i", "c", "s", ",", " ", "t", "h", "e", " ", "S", "I", " ", "u", "n", "i", "t", " ", "o", "f", " ", "e", "n", "t", "r", "o", "p", "y", " ", "i", "s", "?">>,
    <<"W", "h", "i", "c", "h", " ", "m", "e", "t", "a", "l", " ", "i", "s", " ", "c", "o", "m", "m", "o", "n", "l", "y", " ", "u", "s", "e", "d", " ", "i", "n", " ", "a", "i", "r", "c", "r", "a", "f", "t", " ", "m", "a", "n", "u", "f", "a", "c", "t", "u", "r", "i", "n", "g", "?">>,
    <<"W", "h", "i", "c", "h", " ", "o", "f", " ", "t", "h", "e", " ", "f", "o", "l", "l", "o", "w", "i", "n", "g", " ", "i", "s", " ", "a", " ", "n", "o", "n", "-", "d", "e", "s", "t", "r", "u", "c", "t", "i", "v", "e", " ", "t", "e", "s", "t", "i", "n", "g", " ", "m", "e", "t", "h", "o", "d", "?">>,
    <<"T", "h", "e", " ", "p", "r", "o", "c", "e", "s", "s", " ", "o", "f", " ", "c", "o", "o", "l", "i", "n", "g", " ", "a", " ", "m", "a", "t", "e", "r", "i", "a", "l", " ", "r", "a", "p", "i", "d", "l", "y", " ", "t", "o", " ", "i", "n", "c", "r", "e", "a", "s", "e", " ", "h", "a", "r", "d", "n", "e", "s", "s", " ", "i", "s", "?">>>>

FallbackAnswers ==
  <<<<"H", "o", "o", "k", "e", "'", "s", " ", "L", "a", "w">>,
    <<"B", "e", "v", "e", "l", " ", "G", "e", "a", "r">>,
    <<"O", "t", "t", "o", " ", "C", "y", "c", "l", "e">>,
    <<"W", "a", "t", "t">>,
    <<"V", "i", "c", "k", "e", "r", "s">>,
    <<"C", "N", "C">>,
    <<"J", "/", "K">>,
    <<"A", "l", "u", "m", "i", "n", "i", "u", "m">>,
    <<"X", "-", "R", "a", "y", " ", "I", "n", "s", "p", "e", "c", "t", "i", "o", "n">>,
    <<"Q", "u", "e", "n", "c", "h", "i", "n", "g">>>>

\* the responses of loadSampleData
SampleResponses ==
  <<
   [fullName |-> <<"S", "h", "u", "b", "h", "a", "m", " ", "K", "u", "m", "a", "r">>,
    employeeId |-> <<"1", "2", "3">>,
    dateOfBirth |-> <<"1", "2", "/", "2", "/", "1", "9", "9", "5">>,
    department |-> <<"I", "T">>,
    score |-> 10,
    answers |->
      <<[questionIndex |-> 0, selectedAnswer |-> <<"H", "o", "o", "k", "e", "'", "s", " ", "L", "a", "w">>, isCorrect |-> TRUE],
         [questionIndex |-> 1, selectedAnswer |-> <<"B", "e", "v", "e", "l", " ", "G", "e", "a", "r">>, isCorrect |-> TRUE],
         [questionIndex |-> 2, selectedAnswer |-> <<"O", "t", "t", "o", " ", "C", "y", "c", "l", "e">>, isCorrect |-> TRUE],
         [questionIndex |-> 3, selectedAnswer |-> <<"W", "a", "t", "t">>, isCorrect |-> TRUE],
         [questionIndex |-> 4, selectedAnswer |-> <<"V", "i", "c", "k", "e", "r", "s">>, isCorrect |-> TRUE],
         [questionIndex |-> 5, selectedAnswer |-> <<"C", "N", "C">>, isCorrect |-> TRUE],
         [questionIndex |-> 6, selectedAnswer |-> <<"J", "/", "K">>, isCorrect |-> TRUE],
         [questionIndex |-> 7, selectedAnswer |-> <<"A", "l", "u", "m", "i", "n", "i", "u", "m">>, isCorrect |-> TRUE],
         [questionIndex |-> 8, selectedAnswer |-> <<"X", "-", "R", "a", "y", " ", "I", "n", "s", "p", "e", "c", "t", "i", "o", "n">>, isCorrect |-> TRUE],
         [questionIndex |-> 9, selectedAnswer |-> <<"Q", "u", "e", "n", "c", "h", "i", "n", "g">>, isCorrect |-> TRUE]>>,
    submissionDate |-> [date |-> "2025-08-16T14:10:59"]],
   [fullName |-> <<"R", "a", "j", "e", "s", "h", " ", "S", "h", "a", "r", "m", "a">>,
    employeeId |-> <<"4", "5", "6">>,
    dateOfBirth |-> <<"1", "3", "/", "0", "2", "/", "1", "9", "9", "0">>,
    department |-> <<"M", "e", "c", "h", "a", "n", "i", "c", "a", "l">>,
    score |-> 8,
    answers |->
      <<[questionIndex |-> 0, selectedAnswer |-> <<"H", "o", "o", "k", "e", "'", "s", " ", "L", "a", "w">>, isCorrect |-> TRUE],
         [questionIndex |-> 1, selectedAnswer |-> <<"B", "e", "v", "e", "l", " ", "G", "e", "a", "r">>, isCorrect |-> TRUE],
         [questionIndex |-> 2, selectedAnswer |-> <<"O", "t", "t", "o", " ", "C", "y", "c", "l", "e">>, isCorrect |-> TRUE],
         [questionIndex |-> 3, selectedAnswer |-> <<"W", "a", "t", "t">>, isCorrect |-> TRUE],
         [questionIndex |-> 4, selectedAnswer |-> <<"M", "o", "h", "s">>, isCorrect |-> FALSE],
         [questionIndex |-> 5, selectedAnswer |-> <<"C", "N", "C">>, isCorrect |-> TRUE],
         [questionIndex |-> 6, selectedAnswer |-> <<"J", "/", "K">>, isCorrect |-> TRUE],
         [questionIndex |-> 7, selectedAnswer |-> <<"C", "o", "p", "p", "e", "r">>, isCorrect |-> FALSE],
         [questionIndex |-> 8, selectedAnswer |-> <<"X", "-", "R", "a", "y", " ", "I", "n", "s", "p", "e", "c", "t", "i", "o", "n">>, isCorrect |-> TRUE],
         [questionIndex |-> 9, selectedAnswer |-> <<"Q", "u", "e", "n", "c", "h", "i", "n", "g">>, isCorrect |-> TRUE]>>,
    submissionDate |-> [date |-> "2025-08-16T19:07:21"]],
   [fullName |-> <<"P", "r", "i", "y", "a", " ", "S", "i", "n", "g", "h">>,
    employeeId |-> <<"7", "8", "9">>,
    dateOfBirth |-> <<"2", "5", "/", "0", "5", "/", "1", "9", "9", "2">>,
    department |-> <<"E", "l", "e", "c", "t", "r", "i", "c", "a", "l">>,
    score |-> 5,
    answers |->
      <<[questionIndex |-> 0, selectedAnswer |-> <<"P", "a", "s", "c", "a", "l", "'", "s", " ", "L", "a", "w">>, isCorrect |-> FALSE],
         [questionIndex |-> 1, selectedAnswer |-> <<"B", "e", "v", "e", "l", " ", "G", "e", "a", "r">>, isCorrect |-> TRUE],
         [questionIndex |-> 2, selectedAnswer |-> <<"C", "a", "r", "n", "o", "t", " ", "C", "y", "c", "l", "e">>, isCorrect |-> FALSE],
         [questionIndex |-> 3, selectedAnswer |-> <<"W", "a", "t", "t">>, isCorrect |-> TRUE],
         [questionIndex |-> 4, selectedAnswer |-> <<"V", "i", "c", "k", "e", "r", "s">>, isCorrect |-> TRUE],
         [questionIndex |-> 5, selectedAnswer |-> <<"T", "I", "G">>, isCorrect |-> FALSE],
         [questionIndex |-> 6, selectedAnswer |-> <<"W">>, isCorrect |-> FALSE],
         [questionIndex |-> 7, selectedAnswer |-> <<"A", "l", "u", "m", "i", "n", "i", "u", "m">>, isCorrect |-> TRUE],
         [questionIndex |-> 8, selectedAnswer |-> <<"B", "e", "n", "d", " ", "T", "e", "s", "t">>, isCorrect |-> FALSE],
         [questionIndex |-> 9, selectedAnswer |-> <<"N", "o", "r", "m", "a", "l", "i", "z", "i", "n", "g">>, isCorrect |-> FALSE]>>,
    submissionDate |-> [date |-> "2025-08-17T10:15:30"]]
  >>

\* the responses GET /api/dashboard-stats serves, and its body for them
MaxServed == 12

ServedQuestions == <<<<"Q", "1">>, <<"Q", "2">>>>

ServedAnswers == <<<<"A">>, <<"B">>>>

ServedResponses(n) ==
  [k \in 1..n |->
     [fullName |-> <<"E">> \o NumberText(k),
      employeeId |-> NumberText(k),
      dateOfBirth |-> <<"d">>,
      department |-> IF k % 2 = 1 THEN <<"I", "T">> ELSE <<"C", "i", "v", "i", "l">>,
      score |-> (3 * k) % 11,
      answers |-> <<>>,
      submissionDate |-> [at |-> 1],
      originalScore |-> <<>>,
      timestamp |-> <<>>,
      isReferenceEmployee |-> k = 1]]

ServedCounts == {0, 2, MaxServed}

ServedStats(n) == DashboardStats(ServedResponses(n), ServedQuestions, ServedAnswers)

\* what a request of the component comes back with
HttpOutcomes == {[kind |-> "error"]} \cup {[kind |-> "data", n |-> n] : n \in ServedCounts}

\* the calls of the component that are suspended at an await, and the retry
\* timers that are set
NoPending == [wake |-> 0, health |-> 0, questions |-> 0, stats |-> 0, retry |-> 0]

MaxPending == 2

Pending(d) ==
  d.pending.wake + d.pending.health + d.pending.questions + d.pending.stats
    + d.pending.retry

\* the component as constructed
NewDashboard ==
  [constructed |-> TRUE,
   started |-> FALSE,
   currentApiUrl |-> 1,
   responses |-> <<>>,
   filteredResponses |-> <<>>,
   isLoading |-> FALSE,
   errorMessage |-> "",
   connectionAttempts |-> 0,
   selectedDepartment |-> <<>>,
   selectedScoreRange |-> <<>>,
   selectedStatus |-> "",
   searchTerm |-> <<>>,
   currentPage |-> 1,
   totalPages |-> 1,
   totalResponses |-> 0,
   passedCount |-> 0,
   failedCount |-> 0,
   averageScore |-> [tenths |-> 0],
   departments |-> <<>>,
   departmentStats |-> <<>>,
   questions |-> <<>>,
   correctAnswers |-> <<>>,
   apiConnected |-> FALSE,
   isRetrying |-> FALSE,
   pending |-> NoPending]

\* Math.ceil(a / b) for integers a >= 0, b > 0
Ceil(a, b) == (a + b - 1) \div b

\* Number(text) of a numeral
RECURSIVE NumberOf(_)
NumberOf(text) ==
  IF text = <<>> THEN 0
  ELSE 10 * NumberOf(SubSeq(text, 1, Len(text) - 1))
         + (CHOOSE v \in 0..9 : DigitChar[v + 1] = text[Len(text)])

\* selectedScoreRange.split('-').map(Number), for a range "min-max"
RangeOf(range) ==
  LET dash == CHOOSE k \in 1..Len(range) : range[k] = "-"
  IN [min |-> NumberOf(SubSeq(range, 1, dash - 1)),
      max |-> NumberOf(SubSeq(range, dash + 1, Len(range)))]

\* the filter callback of applyFilters
Matches(d, response) ==
  /\ ~(d.selectedDepartment # <<>> /\ response.department # d.selectedDepartment)
  /\ ~(/\ d.selectedScoreRange # <<>>
       /\ \/ response.score < RangeOf(d.selectedScoreRange).min
          \/ response.score > RangeOf(d.selectedScoreRange).max)
  /\ ~(/\ d.selectedStatus # ""
       /\ \/ d.selectedStatus = "passed" /\ ~(response.score >= PassThreshold)
          \/ d.selectedStatus = "failed" /\ response.score >= PassThreshold)
  /\ ~(/\ d.searchTerm # <<>>
       /\ ~Includes(ToLowerCase(response.fullName), ToLowerCase(d.searchTerm))
       /\ ~Includes(ToLowerCase(response.employeeId), ToLowerCase(d.searchTerm)))

applyFilters(d) ==
  LET filtered == SelectSeq(d.responses, LAMBDA response : Matches(d, response))
  IN [d EXCEPT !.filteredResponses = filtered,
               !.totalPages = Ceil(Len(filtered), itemsPerPage),
               !.currentPage = 1]

initializeData(d) ==
  LET totalResponses == Len(d.responses)
      passedCount == CountPassed(d.responses)
      departments == DistinctDepartments(d.responses, <<>>)
  IN [d EXCEPT !.totalResponses = totalResponses,
               !.passedCount = passedCount,
               !.failedCount = totalResponses - passedCount,
               !.averageScore =
                  IF totalResponses > 0
                    THEN [quotient |-> DoubleDivide(SumScores(d.responses), totalResponses)]
                    ELSE [tenths |-> 0],
               !.departments = departments,
               !.departmentStats =
                  IF Len(d.departmentStats) = 0
                    THEN [i \in 1..Len(departments) |->
                            DepartmentStat(d.responses, departments[i])]
                    ELSE d.departmentStats]

loadSampleData(d) ==
  applyFilters(initializeData([d EXCEPT !.responses = SampleResponses]))

\* the success branch of loadDashboardData, for the data of the body
Loaded(d, data) ==
  applyFilters(
    [d EXCEPT !.responses =
                 [i \in 1..Len(data.responses) |->
                    [data.responses[i] EXCEPT !.submissionDate = [date |-> @]]],
              !.totalResponses = data.totalResponses,
              !.passedCount = data.passedCount,
              !.failedCount = data.failedCount,
              !.averageScore = [tenths |-> data.averageScore],
              !.departments = data.departments,
              !.departmentStats = data.departmentStats,
              !.questions =
                 IF "questions" \in DOMAIN data.metadata
                   THEN data.metadata.questions ELSE @,
              !.correctAnswers =
                 IF "correctAnswers" \in DOMAIN data.metadata
                   THEN data.metadata.correctAnswers ELSE @,
              !.apiConnected = TRUE,
              !.connectionAttempts = 0])

\* the catch branch of loadDashboardData
Failed(d) ==
  LET counted == [d EXCEPT !.connectionAttempts = @ + 1]
  IN IF counted.connectionAttempts < maxRetries
       THEN [counted EXCEPT !.errorMessage = "Server is starting up",
                            !.pending.retry = @ + 1]
       ELSE loadSampleData(
              [counted EXCEPT !.apiConnected = FALSE,
                              !.errorMessage = "Unable to connect to server"])

\* the finally branch of loadDashboardData
Finally(d) ==
  IF d.connectionAttempts >= maxRetries \/ d.apiConnected
    THEN [d EXCEPT !.isLoading = FALSE] ELSE d

startIndex(d) == (d.currentPage - 1) * itemsPerPage

endIndex(d) == Min(startIndex(d) + itemsPerPage, Len(d.filteredResponses))

paginatedResponses(d) == Slice(d.filteredResponses, startIndex(d), endIndex(d))

\* the variables the component leaves alone
backendVars == <<sheet, QUESTIONS, CORRECT_ANSWERS, res, tableVars, parseVars, fetchVars>>

InitDashboard ==
  /\ dashboard = NewDashboard
  /\ route = "dashboard"
  /\ login = NewLogin
  /\ timers = 0
  /\ sheet = <<>>
  /\ QUESTIONS = <<>>
  /\ CORRECT_ANSWERS = <<>>
  /\ res = NoResponse
  /\ NoHistory /\ NoText /\ NoFetch

\* initializeConnection up to its first await, inside wakeUpServer
Connecting(d) ==
  [d EXCEPT !.isLoading = TRUE,
            !.errorMessage = "",
            !.isRetrying = TRUE,
            !.pending.wake = @ + 1]

\* loadDashboardData up to its await
Requesting(d) ==
  [d EXCEPT !.isLoading = TRUE,
            !.errorMessage = "",
            !.pending.stats = @ + 1]

NgOnInit ==
  /\ ~dashboard.started
  /\ dashboard' = Connecting([dashboard EXCEPT !.started = TRUE,
                                               !.questions = FallbackQuestions,
                                               !.correctAnswers = FallbackAnswers])
  /\ UNCHANGED <<backendVars, login, route, timers>>

RefreshData ==
  /\ dashboard.started
  /\ Pending(dashboard) < MaxPending
  /\ dashboard' = Connecting([dashboard EXCEPT !.connectionAttempts = 0,
                                               !.errorMessage = ""])
  /\ UNCHANGED <<backendVars, login, route, timers>>

\* wakeUpServer returns, whatever its request has given, and checkApiHealth
\* sends its request
WakeUpDone ==
  /\ dashboard.pending.wake > 0
  /\ dashboard' = [dashboard EXCEPT !.isRetrying = FALSE,
                                    !.pending.wake = @ - 1,
                                    !.pending.health = @ + 1]
  /\ UNCHANGED <<backendVars, login, route, timers>>

\* the request of checkApiHealth comes back; on a failure the second URL is
\* tried once; then loadQuestions sends its request
HealthDone(ok) ==
  /\ dashboard.pending.health > 0
  /\ dashboard' =
       IF ok
         THEN [dashboard EXCEPT !.apiConnected = TRUE,
                                !.pending.health = @ - 1,
                                !.pending.questions = @ + 1]
         ELSE IF dashboard.currentApiUrl # 2
           THEN [dashboard EXCEPT !.apiConnected = FALSE,
                                  !.currentApiUrl = 2]
           ELSE [dashboard EXCEPT !.apiConnected = FALSE,
                                  !.pending.health = @ - 1,
                                  !.pending.questions = @ + 1]
  /\ UNCHANGED <<backendVars, login, route, timers>>

\* the request of loadQuestions comes back, and loadDashboardData starts
QuestionsDone(ok) ==
  /\ dashboard.pending.questions > 0
  /\ dashboard' =
       Requesting([dashboard EXCEPT
                     !.questions = IF ok THEN ServedQuestions ELSE @,
                     !.correctAnswers = IF ok THEN ServedAnswers ELSE @,
                     !.pending.questions = @ - 1])
  /\ UNCHANGED <<backendVars, login, route, timers>>

\* the request of loadDashboardData comes back: the rest of the function
StatsDone(outcome) ==
  /\ dashboard.pending.stats > 0
  /\ dashboard' =
       LET resumed == [dashboard EXCEPT !.pending.stats = @ - 1]
       IN IF outcome.kind = "data"
            THEN Finally(Loaded(resumed, ServedStats(outcome.n)))
            ELSE Finally(Failed(resumed))
  /\ UNCHANGED <<backendVars, login, route, timers>>

\* the timer set by a failed load fires
RetryFires ==
  /\ dashboard.pending.retry > 0
  /\ dashboard' = Requesting([dashboard EXCEPT !.pending.retry = @ - 1])
  /\ UNCHANGED <<backendVars, login, route, timers>>

\* the settings of the filter controls the user chooses
FilterChoices ==
  {[selectedDepartment |-> <<>>, selectedScoreRange |-> <<>>,
    selectedStatus |-> "", searchTerm |-> <<>>],
   [selectedDepartment |-> <<"I", "T">>, selectedScoreRange |-> <<>>,
    selectedStatus |-> "", searchTerm |-> <<>>],
   [selectedDepartment |-> <<>>, selectedScoreRange |-> <<"6", "-", "1", "0">>,
    selectedStatus |-> "failed", searchTerm |-> <<>>],
   [selectedDepartment |-> <<>>, selectedScoreRange |-> <<"0", "-", "5">>,
    selectedStatus |-> "", searchTerm |-> <<"e", "1">>],
   [selectedDepartment |-> <<>>, selectedScoreRange |-> <<>>,
    selectedStatus |-> "passed", searchTerm |-> <<"K", "U">>]}

\* the user sets the filter controls and applyFilters runs
ApplyFilters(choice) ==
  /\ dashboard.started
  /\ dashboard' =
       applyFilters([dashboard EXCEPT
                       !.selectedDepartment = choice.selectedDepartment,
                       !.selectedScoreRange = choice.selectedScoreRange,
                       !.selectedStatus = choice.selectedStatus,
                       !.searchTerm = choice.searchTerm])
  /\ UNCHANGED <<backendVars, login, route, timers>>

PreviousPage ==
  /\ dashboard.started
  /\ dashboard' = IF dashboard.currentPage > 1
                    THEN [dashboard EXCEPT !.currentPage = @ - 1] ELSE dashboard
  /\ UNCHANGED <<backendVars, login, route, timers>>

NextPage ==
  /\ dashboard.started
  /\ dashboard' = IF dashboard.currentPage < dashboard.totalPages
                    THEN [dashboard EXCEPT !.currentPage = @ + 1] ELSE dashboard
  /\ UNCHANGED <<backendVars, login, route, timers>>

\* the page numbers goToPage is called with
PageNumbers == -1..3

GoToPage(page) ==
  /\ dashboard.started
  /\ dashboard' = IF page >= 1 /\ page <= dashboard.totalPages
                    THEN [dashboard EXCEPT !.currentPage = page] ELSE dashboard
  /\ UNCHANGED <<backendVars, login, route, timers>>

NextDashboard ==
  \/ NgOnInit
  \/ RefreshData
  \/ WakeUpDone
  \/ \E ok \in BOOLEAN : HealthDone(ok)
  \/ \E ok \in BOOLEAN : QuestionsDone(ok)
  \/ \E outcome \in HttpOutcomes : StatsDone(outcome)
  \/ RetryFires
  \/ \E choice \in FilterChoices : ApplyFilters(choice)
  \/ PreviousPage
  \/ NextPage
  \/ \E page \in PageNumbers : GoToPage(page)

SpecDashboard == InitDashboard /\ [][NextDashboard]_vars

----------------------------------------------------------------------------
(* Claims about the dashboard *)

\* a step in which a load of the dashboard data has failed
LoadFailed == dashboard'.connectionAttempts = dashboard.connectionAttempts + 1

\* the failed load that uses up the attempts loads the sample data, leaves
\* apiConnected and isLoading false and sets no timer; an earlier one sets
\* one timer
RetriesEndWithSampleData ==
  [][LoadFailed =>
       IF dashboard'.connectionAttempts < maxRetries
         THEN dashboard'.pending.retry = dashboard.pending.retry + 1
         ELSE /\ dashboard'.pending.retry = dashboard.pending.retry
              /\ dashboard'.responses = SampleResponses
              /\ ~dashboard'.apiConnected
              /\ ~dashboard'.isLoading]_vars

\* C28: the retries of the dashboard load end: a failed load below
\* maxRetries sets one retry timer, the failed load that reaches maxRetries
\* loads the sample data, sets apiConnected and isLoading to false and sets
\* no further timer; and isLoading is never false while a retry is still
\* scheduled, also when refreshData is called in between
C28_RetryEndsAndLoadingShown ==
  [][/\ LoadFailed =>
          IF dashboard'.connectionAttempts < maxRetries
            THEN dashboard'.pending.retry = dashboard.pending.retry + 1
            ELSE /\ dashboard'.pending.retry = dashboard.pending.retry
                 /\ dashboard'.responses = SampleResponses
                 /\ ~dashboard'.apiConnected
                 /\ ~dashboard'.isLoading
     /\ dashboard'.pending.retry > 0 => dashboard'.isLoading]_vars

\* the first three parts of C29: the counts and the departments are those of
\* the responses shown
CountsDescribeResponses ==
  /\ dashboard.totalResponses = Len(dashboard.responses)
  /\ dashboard.passedCount + dashboard.failedCount = dashboard.totalResponses
  /\ dashboard.departments = DistinctDepartments(dashboard.responses, <<>>)

\* C29: after any sequence of loads (a load from the API, a failed load
\* ending in loadSampleData, refreshData) the statistics shown describe the
\* responses shown: totalResponses is their number, passedCount and
\* failedCount add up to it, departments are their distinct departments and
\* departmentStats is the aggregation per department of exactly these
\* responses
C29_StatisticsDescribeResponses ==
  /\ dashboard.totalResponses = Len(dashboard.responses)
  /\ dashboard.passedCount + dashboard.failedCount = dashboard.totalResponses
  /\ dashboard.departments = DistinctDepartments(dashboard.responses, <<>>)
  /\ dashboard.departmentStats =
       [i \in 1..Len(dashboard.departments) |->
          DepartmentStat(dashboard.responses, dashboard.departments[i])]

RECURSIVE Flatten(_)
Flatten(lists) == IF lists = <<>> THEN <<>> ELSE Head(lists) \o Flatten(Tail(lists))

\* paginatedResponses when page p is the current one
PageOf(d, p) == paginatedResponses([d EXCEPT !.currentPage = p])

\* the pages 1..totalPages hold at most itemsPerPage responses each and,
\* one after the other, make up filteredResponses
PagesAreSlices(d) ==
  /\ \A p \in 1..d.totalPages : Len(PageOf(d, p)) <= itemsPerPage
  /\ Flatten([p \in 1..d.totalPages |-> PageOf(d, p)]) = d.filteredResponses

FilterSettings(d) ==
  <<d.selectedDepartment, d.selectedScoreRange, d.selectedStatus, d.searchTerm>>

\* a step of applyFilters or of a navigation that has changed something
Paged ==
  \/ FilterSettings(dashboard') # FilterSettings(dashboard)
  \/ dashboard'.filteredResponses # dashboard.filteredResponses
  \/ dashboard'.totalPages # dashboard.totalPages
  \/ dashboard'.currentPage # dashboard.currentPage

\* the parts of C30 other than the range of currentPage
PagesFollowTheFilter ==
  [][Paged =>
       /\ dashboard'.totalPages = Ceil(Len(dashboard'.filteredResponses), itemsPerPage)
       /\ PagesAreSlices(dashboard')
       /\ dashboard'.currentPage >= 1
       /\ FilterSettings(dashboard') # FilterSettings(dashboard)
            => dashboard'.currentPage = 1]_vars

\* C30: after applyFilters, nextPage, previousPage and goToPage(p) for any
\* integer p, 1 <= currentPage <= totalPages with totalPages =
\* ceil(filteredResponses.length / itemsPerPage), also when the filter
\* matches no response; applyFilters resets currentPage to 1; and the pages
\* 1..totalPages are consecutive slices of at most itemsPerPage responses
\* that make up filteredResponses
C30_CurrentPageWithinPages ==
  [][Paged =>
       /\ 1 <= dashboard'.currentPage
       /\ dashboard'.currentPage <= dashboard'.totalPages
       /\ dashboard'.totalPages = Ceil(Len(dashboard'.filteredResponses), itemsPerPage)
       /\ PagesAreSlices(dashboard')
       /\ FilterSettings(dashboard') # FilterSettings(dashboard)
            => dashboard'.currentPage = 1]_vars

\* a second page is shown
SecondPageShown ==
  /\ dashboard.currentPage = 2
  /\ Len(paginatedResponses(dashboard)) = MaxServed - itemsPerPage

====
